---- MODULE Spec2Model ----
(***************************************************************************)
(* Transaction orchestration of the cockpit-pacman backend: the mutating   *)
(* drivers (sync_database, run_upgrade, remove_orphans), the RAII          *)
(* TransactionGuard, the cooperative cancellation flag and the deadline,   *)
(* and the commit outcome classifier.  The native engine is an            *)
(* environment: each engine call returns success or failure               *)
(* nondeterministically and may invoke the callbacks installed on the      *)
(* handle while it runs.                                                   *)
(* Further specifications cover preflight_upgrade, the orphan queries, the  *)
(* repository-name cache, the configuration file and its ignore list, the  *)
(* keyring drivers with their supervisor task, and downgrade_package with  *)
(* its child process and draining threads.                                 *)
(***************************************************************************)
EXTENDS Integers, Sequences, FiniteSets, TLC

\* ------------------------------------------------------------------------
\* Bounds of the model
\* ------------------------------------------------------------------------
\* callbacks the engine fires in one driver invocation
MaxCallbacks == 2
\* clock ticks observed in one driver invocation
MaxElapsed == 1
\* largest timeout_secs argument
MaxTimeout == 1
\* length of the ignore list handed to run_upgrade
MaxIgnore == 1
\* number of orphan packages found in the local database
MaxOrphans == 2
\* number of packages with an available update
MaxUpdates == 2
\* largest schedule.max_packages of the persisted configuration
MaxPackagesCap == 1
\* packages or candidates one question carries
MaxPayload == 2
\* packages in the add set preflight_upgrade reads after prepare
MaxAdd == 1
\* largest download_size of one package
MaxDownloadSize == 1
\* packages in the local database the orphan queries read
MaxLocalPkgs == 2
\* successful database syncs in one process
MaxSyncs == 6
\* processes that run AppConfig::load next to the one that runs save
MaxLoads == 2
\* package names handed to add_ignored, remove_ignored and is_ignored
MaxNames == 4
\* lines the child of downgrade_package writes to each of its pipes
MaxLines == 1

\* ------------------------------------------------------------------------
\* Text: a string is the sequence of its ASCII codes
\* ------------------------------------------------------------------------
\* "interrupt"
KW_INTERRUPT ==
    <<105, 110, 116, 101, 114, 114, 117, 112, 116>>

\* "cancel"
KW_CANCEL ==
    <<99, 97, 110, 99, 101, 108>>

\* "signal"
KW_SIGNAL ==
    <<115, 105, 103, 110, 97, 108>>

\* "timeout"
KW_TIMEOUT ==
    <<116, 105, 109, 101, 111, 117, 116>>

\* "disk full"
ERR_DISK_FULL ==
    <<100, 105, 115, 107, 32, 102, 117, 108, 108>>

\* "interrupted by signal"
ERR_INTERRUPTED_BY_SIGNAL ==
    <<105, 110, 116, 101, 114, 114, 117, 112, 116, 101, 100, 32, 98, 121, 32, 115, 105, 103, 110, 97, 108>>

\* "operation timeout occurred"
ERR_TIMEOUT_OCCURRED ==
    <<111, 112, 101, 114, 97, 116, 105, 111, 110, 32, 116, 105, 109, 101, 111, 117, 116, 32, 111, 99, 99, 117, 114, 114, 101, 100>>

\* "User CANCELLED it"
ERR_USER_CANCELLED ==
    <<85, 115, 101, 114, 32, 67, 65, 78, 67, 69, 76, 76, 69, 68, 32, 105, 116>>

\* "SIGNAL 2"
ERR_SIGNAL_UPPER ==
    <<83, 73, 71, 78, 65, 76, 32, 50>>

\* "conflicting files exist"
ERR_CONFLICTING_FILES ==
    <<99, 111, 110, 102, 108, 105, 99, 116, 105, 110, 103, 32, 102, 105, 108, 101, 115, 32, 101, 120, 105, 115, 116>>

\* "timed out"
ERR_TIMED_OUT ==
    <<116, 105, 109, 101, 100, 32, 111, 117, 116>>

ErrTexts ==
    {ERR_DISK_FULL, ERR_INTERRUPTED_BY_SIGNAL, ERR_TIMEOUT_OCCURRED,
     ERR_USER_CANCELLED, ERR_SIGNAL_UPPER, ERR_CONFLICTING_FILES,
     ERR_TIMED_OUT}

\* the value of commit_err when commit() returned Ok
NoError ==
    <<>>

to_lowercase(s) ==
    [i \in 1..Len(s) |-> IF s[i] \in 65..90 THEN s[i] + 32 ELSE s[i]]

contains(s, pat) ==
    \E i \in 1..(Len(s) - Len(pat) + 1) : SubSeq(s, i, i + Len(pat) - 1) = pat

error_indicates_interrupt(err_msg) ==
    LET err_lower == to_lowercase(err_msg)
    IN  \/ contains(err_lower, KW_INTERRUPT)
        \/ contains(err_lower, KW_CANCEL)
        \/ contains(err_lower, KW_SIGNAL)
        \/ contains(err_lower, KW_TIMEOUT)

\* ------------------------------------------------------------------------
\* State
\* ------------------------------------------------------------------------
VARIABLES
    op,                    \* the driver this invocation runs
    pc,                    \* position of the driver in its code
    ret,                   \* value handed to the exit-code layer
    cancelled,             \* static CANCELLED
    elapsed,               \* timeout.start.elapsed()
    timeout_secs,          \* timeout.timeout
    handle,                \* TRUE while the engine handle is open
    cbs,                   \* callbacks installed on the handle
    trans,                 \* the engine's transaction: "none" | "active"
    guard,                 \* TRUE while a TransactionGuard is alive
    initResult,            \* outcome of trans_init: "none" | "ok" | "err"
    releaseCalls,          \* number of trans_release invocations
    commitCalls,           \* number of trans_commit invocations
    inCall,                \* engine call in progress, "none" otherwise
    cbFired,               \* callbacks fired so far
    stream,                \* records written to stdout by emit_event
    ignoreLeft,            \* ignore_pkgs entries not yet registered
    orphansLeft,           \* orphan_names entries not yet staged
    orphanCount,           \* orphan_names.len()
    staged,                \* orphans trans_remove_pkg has accepted
    was_cancelled_before,  \* local of the driver
    was_timed_out_before,  \* local of the driver
    commit_err,            \* error text of the failed commit, NoError otherwise
    interrupted_message,   \* argument of handle_commit_error
    prepareCheck,          \* check_cancel as it stood when prepare returned
    commitReads,           \* reads of the flag or the deadline during commit
    flagsAtCommit,         \* the flag and the deadline when commit was invoked
    config,                \* AppConfig as AppConfig::load() returns it
    packages_checked,      \* local of scheduled_run
    packages_to_upgrade,   \* local of scheduled_run
    qflags,                \* has_conflicts, has_removals, has_import_keys
    detected,              \* conflicts_, removals_, imports_detected
    runLog,                \* entries appended to the scheduled-run log
    asked,                 \* questions the engine raised, as they were answered
    plan,                  \* add and remove sets the driver read after prepare
    ignore_pkgs,           \* length of the ignore list of preflight_upgrade
    state,                 \* PreflightState shared with the question callback
    response,              \* PreflightResponse lines printed to stdout
    run,                   \* number of the preflight invocation
    script,                \* what the engine did in the first invocation
    results,               \* output and return value of finished invocations
    localdb,               \* packages of the local database
    orphans,               \* names list_orphans puts in its response
    orphan_names,          \* local of remove_orphans
    REPO_MAP_CACHE,        \* static of db.rs, the epoch of the cached map or NoMap
    syncdbs,               \* successful syncs of the sync databases so far
    repo_map,              \* what get_repo_map returned last
    init_error,            \* the error TransactionGuard::new handed to run_upgrade
    config_file,           \* content of the file at CONFIG_PATH
    config_locks,          \* advisory locks held on the file, as <<process, mode>>
    config_pc,             \* position of each process in save or load
    content,               \* what each load read from the file
    ignored_packages,      \* field of the AppConfig the calls act on
    last_call,             \* the last call on the AppConfig, its argument and what it returned
    in_cb,                 \* callback the engine is inside of, past its test
    token,                 \* cancel_token of the keyring drivers, TRUE once cancelled
    sup,                   \* the supervisor task that polls the flag
    child,                 \* the pacman child process of downgrade_package
    status,                \* status.success() of the child as try_wait returned it
    pipes,                 \* lines written to each pipe of the child and not yet read
    lines_out,             \* lines the child has written to each pipe
    readers,               \* the two threads that drain the pipes
    kills,                 \* number of child.kill() calls
    signalled_in           \* keyring operation running when the signal arrived

vars ==
    <<op, pc, ret, cancelled, elapsed, timeout_secs, handle, cbs, trans,
      guard, initResult, releaseCalls, commitCalls, inCall, cbFired, stream,
      ignoreLeft, orphansLeft, orphanCount, was_cancelled_before,
      was_timed_out_before, commit_err, interrupted_message, prepareCheck,
      commitReads, flagsAtCommit, config, packages_checked,
      packages_to_upgrade, qflags, detected, runLog, asked, plan, ignore_pkgs,
      state, response, run, script, results, staged, localdb, orphans,
      orphan_names, REPO_MAP_CACHE, syncdbs, repo_map, init_error,
      config_file, config_locks, config_pc, content, ignored_packages,
      last_call, in_cb, token, sup, child, status, pipes, lines_out, readers,
      kills, signalled_in>>

flagVars ==
    <<cancelled, elapsed, timeout_secs>>

engineVars ==
    <<handle, cbs, trans, guard, initResult, releaseCalls, commitCalls,
      inCall, cbFired>>

loopVars ==
    <<ignoreLeft, orphansLeft, orphanCount, staged>>

sampleVars ==
    <<was_cancelled_before, was_timed_out_before>>

errVars ==
    <<commit_err, interrupted_message>>

histVars ==
    <<prepareCheck, commitReads, flagsAtCommit>>

localVars ==
    <<loopVars, sampleVars, errVars, histVars>>

schedVars ==
    <<config, packages_checked, packages_to_upgrade, qflags, detected,
      runLog>>

questionVars ==
    <<asked, plan>>

preflightVars ==
    <<ignore_pkgs, state, response, run, script, results>>

orphanVars ==
    <<localdb, orphans, orphan_names>>

cacheVars ==
    <<REPO_MAP_CACHE, syncdbs, repo_map>>

returnVars ==
    <<init_error>>

configVars ==
    <<config_file, config_locks, config_pc, content>>

ignoredVars ==
    <<ignored_packages, last_call>>

callbackVars ==
    <<in_cb>>

keyringVars ==
    <<token, sup>>

downgradeVars ==
    <<child, status, pipes, lines_out, readers, kills>>

keyringHist ==
    <<signalled_in>>

Drivers ==
    {"upgrade", "remove_orphans", "sync_database"}

\* ------------------------------------------------------------------------
\* util.rs
\* ------------------------------------------------------------------------
is_cancelled ==
    cancelled

is_timed_out ==
    elapsed >= timeout_secs

\* variant: the deadline is tested before the flag
check_cancel_timeout_first ==
    IF is_timed_out THEN "TimedOut"
    ELSE IF is_cancelled THEN "Cancelled"
    ELSE "Continue"

check_cancel ==
    IF is_cancelled THEN "Cancelled"
    ELSE IF is_timed_out THEN "TimedOut"
    ELSE "Continue"

\* the flag and the deadline as a driver would read them now
FlagsNow ==
    [cancelled |-> is_cancelled, timed_out |-> is_timed_out]

Record(type, success, message, arg) ==
    [type |-> type, success |-> success, message |-> message, arg |-> arg]

Complete(success, message, arg) ==
    Record("complete", success, message, arg)

emit_cancellation_complete(reason) ==
    IF reason = "Cancelled"
    THEN Complete(FALSE, "Operation cancelled by user", <<>>)
    ELSE Complete(FALSE, "Operation timed out after {} seconds", <<timeout_secs>>)

emit_event(event) ==
    stream' = Append(stream, event)

\* variant: the flag is left as the previous operation set it
setup_signal_handler_keeps_flag ==
    UNCHANGED cancelled

\* reset_cancelled(), then the ctrlc handler is installed once per process
setup_signal_handler ==
    cancelled' = FALSE

\* `return r` of a driver: the locals are dropped next
Return(r) ==
    /\ pc' = "unwind"
    /\ ret' = r

\* check_cancel_early!(&timeout) at position p, falling through to q
check_cancel_early(p, q) ==
    /\ pc = p
    /\ inCall = "none"
    /\ IF check_cancel /= "Continue"
       THEN /\ emit_event(emit_cancellation_complete(check_cancel))
            /\ Return("Ok")
       ELSE /\ pc' = q
            /\ UNCHANGED <<ret, stream>>
    /\ UNCHANGED <<op, flagVars, engineVars, localVars, schedVars,
                   questionVars, preflightVars, orphanVars, cacheVars,
                   returnVars, configVars, ignoredVars, callbackVars,
                   keyringVars, downgradeVars, keyringHist>>

\* ------------------------------------------------------------------------
\* Environment: the interrupt signal and the clock
\* ------------------------------------------------------------------------
\* preflight_upgrade installs no handler and holds no TimeoutGuard
Running ==
    /\ pc \notin {"start", "done"}
    /\ op /= "preflight"

\* ctrlc handler installed by setup_signal_handler
Signal ==
    /\ Running
    /\ ~cancelled
    /\ cancelled' = TRUE
    /\ UNCHANGED <<op, pc, ret, elapsed, timeout_secs, engineVars, stream,
                   localVars, schedVars, questionVars, preflightVars,
                   orphanVars, cacheVars, returnVars, configVars, ignoredVars,
                   callbackVars, keyringVars, downgradeVars, keyringHist>>

Tick ==
    /\ Running
    /\ elapsed < MaxElapsed
    /\ elapsed' = elapsed + 1
    /\ UNCHANGED <<op, pc, ret, cancelled, timeout_secs, engineVars, stream,
                   localVars, schedVars, questionVars, preflightVars,
                   orphanVars, cacheVars, returnVars, configVars, ignoredVars,
                   callbackVars, keyringVars, downgradeVars, keyringHist>>

\* ------------------------------------------------------------------------
\* Callbacks the engine invokes while one of its calls is running
\* ------------------------------------------------------------------------
CallbackSlot ==
    /\ inCall /= "none"
    /\ in_cb = "none"
    /\ cbFired < MaxCallbacks
    /\ cbFired' = cbFired + 1

\* variant: the progress callbacks test the deadline as well
FlagsReadBy_deadline(cb) ==
    IF cb = "progress" THEN {"CANCELLED", "deadline"} ELSE {}

\* the flags the body of a callback reads: only the progress callbacks
\* test is_cancelled()
FlagsReadBy(cb) ==
    IF cb = "progress" THEN {"CANCELLED"} ELSE {}

\* a callback runs: its reads are recorded while commit is in progress
CallbackRuns(cb) ==
    /\ CallbackSlot
    /\ cb \in cbs
    /\ commitReads' = IF inCall = "trans_commit"
                      THEN commitReads \cup {<<f, cb>> : f \in FlagsReadBy(cb)}
                      ELSE commitReads

\* setup_log_cb: the closure emits every message, whatever its level
CbLog ==
    /\ CallbackRuns("log")
    /\ emit_event(Record("log", FALSE, "", <<>>))
    /\ UNCHANGED <<op, pc, ret, flagVars, handle, cbs, trans, guard,
                   initResult, releaseCalls, commitCalls, inCall, loopVars,
                   sampleVars, errVars, prepareCheck, flagsAtCommit, schedVars,
                   questionVars, preflightVars, orphanVars, cacheVars,
                   returnVars, configVars, ignoredVars, callbackVars,
                   keyringVars, downgradeVars, keyringHist>>

\* setup_dl_cb
CbDownload ==
    /\ CallbackRuns("dl")
    /\ inCall \in {"update", "trans_commit"}
    /\ emit_event(Record("download", FALSE, "", <<>>))
    /\ UNCHANGED <<op, pc, ret, flagVars, handle, cbs, trans, guard,
                   initResult, releaseCalls, commitCalls, inCall, loopVars,
                   sampleVars, errVars, prepareCheck, flagsAtCommit, schedVars,
                   questionVars, preflightVars, orphanVars, cacheVars,
                   returnVars, configVars, ignoredVars, callbackVars,
                   keyringVars, downgradeVars, keyringHist>>

\* variant: the progress callback goes on whatever the flag says
progress_cb_returns_never ==
    FALSE

\* if is_cancelled() { return; } at the head of the progress callback
progress_cb_returns ==
    is_cancelled

\* progress callback of run_upgrade and of remove_orphans: it is entered and
\* tests the flag; the signal handler runs on a thread of its own
CbProgress ==
    /\ CallbackRuns("progress")
    /\ inCall \in {"trans_prepare", "trans_commit"}
    /\ in_cb' = IF progress_cb_returns THEN "none" ELSE "progress"
    /\ UNCHANGED <<op, pc, ret, flagVars, handle, cbs, trans, guard,
                   initResult, releaseCalls, commitCalls, inCall, stream,
                   loopVars, sampleVars, errVars, prepareCheck, flagsAtCommit,
                   schedVars, questionVars, preflightVars, orphanVars,
                   cacheVars, returnVars, configVars, ignoredVars, keyringVars,
                   downgradeVars, keyringHist>>

\* emit_event(&StreamEvent::Progress { .. }) of the progress callback
CbProgressEmit ==
    /\ in_cb = "progress"
    /\ in_cb' = "none"
    /\ emit_event(Record("progress", FALSE, "", <<>>))
    /\ UNCHANGED <<op, pc, ret, flagVars, engineVars, localVars, schedVars,
                   questionVars, preflightVars, orphanVars, cacheVars,
                   returnVars, configVars, ignoredVars, keyringVars,
                   downgradeVars, keyringHist>>

\* event callback of run_upgrade and of remove_orphans; the latter returns
\* without a record for the events it does not list
CbEvent ==
    /\ CallbackRuns("event")
    /\ inCall \in {"sync_sysupgrade", "trans_prepare", "trans_commit"}
    /\ \/ emit_event(Record("event", FALSE, "", <<>>))
       \/ /\ op = "remove_orphans"
          /\ UNCHANGED stream
    /\ UNCHANGED <<op, pc, ret, flagVars, handle, cbs, trans, guard,
                   initResult, releaseCalls, commitCalls, inCall, loopVars,
                   sampleVars, errVars, prepareCheck, flagsAtCommit, schedVars,
                   questionVars, preflightVars, orphanVars, cacheVars,
                   returnVars, configVars, ignoredVars, callbackVars,
                   keyringVars, downgradeVars, keyringHist>>

Questions ==
    {"Conflict", "Corrupted", "RemovePkgs", "Replace", "InstallIgnorepkg",
     "SelectProvider", "ImportKey"}

\* the Log record the question callback of run_upgrade writes
UpgradeQuestionLog(q) ==
    CASE q = "Conflict" ->
            Record("log", FALSE, "Resolving conflict between {} and {}", <<>>)
      [] q = "Corrupted" ->
            Record("log", FALSE, "Package {} is corrupted - aborting", <<>>)
      [] q = "RemovePkgs" ->
            Record("log", FALSE, "Removing packages as confirmed: {}", <<>>)
      [] q = "Replace" ->
            Record("log", FALSE, "Replacing {} with {}", <<>>)
      [] q = "SelectProvider" ->
            Record("log", FALSE, "Selecting {} as provider for {}", <<>>)
      [] q = "ImportKey" ->
            Record("log", FALSE, "Importing PGP key {} ({})", <<>>)

\* the Log records the question callback of run_upgrade writes before it
\* answers: the InstallIgnorepkg arm writes none
UpgradeQuestionLogs(q) ==
    IF q = "InstallIgnorepkg" THEN <<>> ELSE <<UpgradeQuestionLog(q)>>

\* variant: the responder of run_upgrade lets a corrupted package through
UpgradeAnswer_accepts_corrupted(q) ==
    CASE q = "Conflict" -> "true"
      [] q = "Corrupted" -> "true"
      [] q = "RemovePkgs" -> "true"
      [] q = "Replace" -> "true"
      [] q = "InstallIgnorepkg" -> "false"
      [] q = "SelectProvider" -> "index 0"
      [] q = "ImportKey" -> "true"

\* set_answer / set_index of the question callback of run_upgrade
UpgradeAnswer(q) ==
    CASE q = "Conflict" -> "true"
      [] q = "Corrupted" -> "false"
      [] q = "RemovePkgs" -> "true"
      [] q = "Replace" -> "true"
      [] q = "InstallIgnorepkg" -> "false"
      [] q = "SelectProvider" -> "index 0"
      [] q = "ImportKey" -> "true"

\* packages of a RemovePkgs question, candidates of a SelectProvider question
QuestionPayloads(q) ==
    IF q \in {"RemovePkgs", "SelectProvider"} THEN 1..MaxPayload ELSE {1}

\* one question as the engine raised it and as the callback left it; n is
\* the number of packages or candidates it carried and during the engine
\* call that raised it, where the callback stores them
Asked(q, n, during, answer, logged) ==
    [q |-> q, n |-> n, during |-> during, answer |-> answer,
     logged |-> logged]

\* question callback of run_upgrade
CbQuestion ==
    /\ CallbackRuns("question")
    /\ op = "upgrade"
    /\ inCall \in {"sync_sysupgrade", "trans_prepare", "trans_commit"}
    /\ \E q \in Questions :
          /\ stream' = stream \o UpgradeQuestionLogs(q)
          /\ asked' = Append(asked,
                         Asked(q, 1, "", UpgradeAnswer(q),
                               Len(UpgradeQuestionLogs(q))))
    /\ UNCHANGED <<op, pc, ret, flagVars, handle, cbs, trans, guard,
                   initResult, releaseCalls, commitCalls, inCall, loopVars,
                   sampleVars, errVars, prepareCheck, flagsAtCommit, schedVars,
                   plan, preflightVars, orphanVars, cacheVars, returnVars,
                   configVars, ignoredVars, callbackVars, keyringVars,
                   downgradeVars, keyringHist>>

\* ------------------------------------------------------------------------
\* errors.rs, and the errors of trans_init
\* ------------------------------------------------------------------------
\* "Failed to initialize transaction"
CONTEXT_INIT ==
    <<70, 97, 105, 108, 101, 100, 32, 116, 111, 32, 105, 110, 105, 116, 105, 97, 108, 105, 122, 101, 32, 116, 114, 97, 110, 115, 97, 99, 116, 105, 111, 110>>

\* "unable to lock database"
ALPM_HANDLE_LOCK ==
    <<117, 110, 97, 98, 108, 101, 32, 116, 111, 32, 108, 111, 99, 107, 32, 100, 97, 116, 97, 98, 97, 115, 101>>

\* "transaction already initialized"
ALPM_TRANS_NOT_NULL ==
    <<116, 114, 97, 110, 115, 97, 99, 116, 105, 111, 110, 32, 97, 108, 114, 101, 97, 100, 121, 32, 105, 110, 105, 116, 105, 97, 108, 105, 122, 101, 100>>

\* what trans_init fails with when the database is locked or the engine is
\* mid-transaction
TransInitErrors ==
    {ALPM_HANDLE_LOCK, ALPM_TRANS_NOT_NULL}

\* an error is the chain of its messages, outermost first;
\* .context(text) puts text in front of the chain
context(err, text) ==
    <<text>> \o err

\* err.to_string(): Display of an anyhow::Error writes the outermost message
to_string(err) ==
    err[1]

\* impl From<anyhow::Error> for BackendError: the code it picks
BackendError_from(err) ==
    LET has_lock_lower ==
            <<117, 110, 97, 98, 108, 101, 32, 116, 111, 32, 108, 111, 99, 107, 32, 100, 97, 116, 97, 98, 97, 115, 101>>
        has_lock_upper ==
            <<85, 110, 97, 98, 108, 101, 32, 116, 111, 32, 108, 111, 99, 107, 32, 100, 97, 116, 97, 98, 97, 115, 101>>
        has_timed_out ==
            <<116, 105, 109, 101, 100, 32, 111, 117, 116>>
        has_timeout ==
            <<116, 105, 109, 101, 111, 117, 116>>
        has_connection ==
            <<99, 111, 110, 110, 101, 99, 116, 105, 111, 110>>
        has_network ==
            <<110, 101, 116, 119, 111, 114, 107>>
        has_resolve_host ==
            <<114, 101, 115, 111, 108, 118, 101, 32, 104, 111, 115, 116>>
        has_transaction ==
            <<116, 114, 97, 110, 115, 97, 99, 116, 105, 111, 110>>
        has_commit ==
            <<99, 111, 109, 109, 105, 116>>
        has_cancelled ==
            <<99, 97, 110, 99, 101, 108, 108, 101, 100>>
        has_canceled ==
            <<99, 97, 110, 99, 101, 108, 101, 100>>
        has_permission_lower ==
            <<112, 101, 114, 109, 105, 115, 115, 105, 111, 110, 32, 100, 101, 110, 105, 101, 100>>
        has_permission_upper ==
            <<80, 101, 114, 109, 105, 115, 115, 105, 111, 110, 32, 100, 101, 110, 105, 101, 100>>
        message == to_string(err)
    IN  IF contains(message, has_lock_lower) \/ contains(message, has_lock_upper)
        THEN "database_locked"
        ELSE IF contains(message, has_timed_out) \/ contains(message, has_timeout)
        THEN "timeout"
        ELSE IF \/ contains(message, has_connection)
                \/ contains(message, has_network)
                \/ contains(message, has_resolve_host)
        THEN "network_error"
        ELSE IF contains(message, has_transaction) \/ contains(message, has_commit)
        THEN "transaction_failed"
        ELSE IF contains(message, has_cancelled) \/ contains(message, has_canceled)
        THEN "cancelled"
        ELSE IF \/ contains(message, has_permission_lower)
                \/ contains(message, has_permission_upper)
        THEN "permission_denied"
        ELSE "internal_error"

\* format_error_json: BackendError::from(anyhow!("{}", err)), then the code
\* field of the JSON text
format_error_json(err) ==
    BackendError_from(<<to_string(err)>>)

\* ------------------------------------------------------------------------
\* alpm/transaction.rs
\* ------------------------------------------------------------------------
\* variant: a guard is built although trans_init failed
TransactionGuard_new_always(ok) ==
    /\ initResult' = IF ok THEN "ok" ELSE "err"
    /\ trans' = IF ok THEN "active" ELSE trans
    /\ guard' = TRUE

\* TransactionGuard::new: trans_init, and a guard only when it succeeded
TransactionGuard_new(ok) ==
    /\ initResult' = IF ok THEN "ok" ELSE "err"
    /\ trans' = IF ok THEN "active" ELSE trans
    /\ guard' = ok

\* variant: the guard goes away without a call of trans_release
TransactionGuard_drop_forgets ==
    /\ pc = "unwind"
    /\ guard
    /\ inCall = "none"
    /\ guard' = FALSE
    /\ UNCHANGED <<op, pc, ret, flagVars, handle, cbs, trans, initResult,
                   releaseCalls, commitCalls, inCall, cbFired, stream,
                   localVars, schedVars, questionVars, preflightVars,
                   orphanVars, cacheVars, returnVars, configVars, ignoredVars,
                   callbackVars, keyringVars, downgradeVars, keyringHist>>

\* Drop for TransactionGuard: the scope of the guard ends on return
TransactionGuard_drop ==
    /\ pc = "unwind"
    /\ guard
    /\ inCall = "none"
    /\ inCall' = "trans_release"
    /\ UNCHANGED <<op, pc, ret, flagVars, handle, cbs, trans, guard,
                   initResult, releaseCalls, commitCalls, cbFired, stream,
                   localVars, schedVars, questionVars, preflightVars,
                   orphanVars, cacheVars, returnVars, configVars, ignoredVars,
                   callbackVars, keyringVars, downgradeVars, keyringHist>>

\* where remove_orphans continues after an explicit handle.trans_release()
AfterRelease(p) ==
    CASE p = "ro_release_prepare_err" -> "ro_complete_prepare_err"
      [] p = "ro_release_empty" -> "ro_complete_empty"
      [] p = "ro_release_commit_err" -> "ro_return_commit_err"
      [] p = "ro_release_ok" -> "ro_complete_ok"
      [] OTHER -> p

\* trans_release returns; its result is ignored at every call site
ReleaseReturn ==
    /\ inCall = "trans_release"
    /\ inCall' = "none"
    /\ releaseCalls' = releaseCalls + 1
    /\ trans' = "none"
    /\ guard' = FALSE
    /\ pc' = AfterRelease(pc)
    /\ UNCHANGED <<op, ret, flagVars, handle, cbs, initResult, commitCalls,
                   cbFired, stream, localVars, schedVars, questionVars,
                   preflightVars, orphanVars, cacheVars, returnVars,
                   configVars, ignoredVars, callbackVars, keyringVars,
                   downgradeVars, keyringHist>>

\* the driver has returned: the handle is dropped with the other locals;
\* what preflight_upgrade printed and returned is kept for the next call
Finish ==
    /\ pc = "unwind"
    /\ ~guard
    /\ inCall = "none"
    /\ pc' = "done"
    /\ handle' = FALSE
    /\ cbs' = {}
    /\ results' = IF op = "preflight"
                  THEN Append(results, [out |-> response, ret |-> ret])
                  ELSE results
    /\ UNCHANGED <<op, ret, flagVars, trans, guard, initResult, releaseCalls,
                   commitCalls, inCall, cbFired, stream, localVars, schedVars,
                   questionVars, ignore_pkgs, state, response, run, script,
                   orphanVars, cacheVars, returnVars, configVars, ignoredVars,
                   callbackVars, keyringVars, downgradeVars, keyringHist>>

\* ------------------------------------------------------------------------
\* handlers/mutation.rs: run_upgrade
\* ------------------------------------------------------------------------
UpgradeCallbacks ==
    {"log", "dl", "progress", "event", "question"}

\* setup_signal_handler(); TimeoutGuard::new(..)
UpgradeStart ==
    /\ op = "upgrade"
    /\ pc = "start"
    /\ setup_signal_handler
    /\ pc' = "up_get_handle"
    /\ UNCHANGED <<op, ret, elapsed, timeout_secs, engineVars, stream,
                   localVars, schedVars, questionVars, preflightVars,
                   orphanVars, cacheVars, returnVars, configVars, ignoredVars,
                   callbackVars, keyringVars, downgradeVars, keyringHist>>

\* let mut handle = get_handle()?;
UpgradeGetHandle ==
    /\ pc = "up_get_handle"
    /\ \E ok \in BOOLEAN :
          IF ok
          THEN /\ handle' = TRUE
               /\ pc' = "up_add_ignorepkg"
               /\ UNCHANGED ret
          ELSE /\ Return("Err")
               /\ UNCHANGED handle
    /\ UNCHANGED <<op, flagVars, cbs, trans, guard, initResult, releaseCalls,
                   commitCalls, inCall, cbFired, stream, localVars, schedVars,
                   questionVars, preflightVars, orphanVars, cacheVars,
                   returnVars, configVars, ignoredVars, callbackVars,
                   keyringVars, downgradeVars, keyringHist>>

\* one iteration of `for pkg_name in ignore_pkgs`
UpgradeAddIgnorepkg ==
    /\ pc = "up_add_ignorepkg"
    /\ ignoreLeft > 0
    /\ \E ok \in BOOLEAN :
          IF ok
          THEN /\ ignoreLeft' = ignoreLeft - 1
               /\ UNCHANGED <<pc, ret, stream>>
          ELSE /\ emit_event(Complete(FALSE,
                      "Failed to ignore package {}: {}", <<>>))
               /\ Return("Err")
               /\ UNCHANGED ignoreLeft
    /\ UNCHANGED <<op, flagVars, engineVars, orphansLeft, orphanCount, staged,
                   sampleVars, errVars, histVars, schedVars, questionVars,
                   preflightVars, orphanVars, cacheVars, returnVars,
                   configVars, ignoredVars, callbackVars, keyringVars,
                   downgradeVars, keyringHist>>

\* setup_log_cb, setup_dl_cb, set_progress_cb, set_event_cb, set_question_cb
UpgradeSetupCallbacks ==
    /\ pc = "up_add_ignorepkg"
    /\ ignoreLeft = 0
    /\ cbs' = UpgradeCallbacks
    /\ pc' = "up_check1"
    /\ UNCHANGED <<op, ret, flagVars, handle, trans, guard, initResult,
                   releaseCalls, commitCalls, inCall, cbFired, stream,
                   localVars, schedVars, questionVars, preflightVars,
                   orphanVars, cacheVars, returnVars, configVars, ignoredVars,
                   callbackVars, keyringVars, downgradeVars, keyringHist>>

UpgradeCheck1 ==
    check_cancel_early("up_check1", "up_trans_init")

\* let mut tx = TransactionGuard::new(&mut handle, TransFlag::NONE)?;
UpgradeTransInit ==
    /\ pc = "up_trans_init"
    /\ \E ok \in BOOLEAN :
          /\ TransactionGuard_new(ok)
          /\ IF ok
             THEN /\ pc' = "up_check2"
                  /\ UNCHANGED <<ret, returnVars>>
             ELSE /\ \E e \in TransInitErrors :
                        init_error' = context(<<e>>, CONTEXT_INIT)
                  /\ Return("Err")
    /\ UNCHANGED <<op, flagVars, handle, cbs, releaseCalls, commitCalls,
                   inCall, cbFired, stream, localVars, schedVars, questionVars,
                   preflightVars, orphanVars, cacheVars, configVars,
                   ignoredVars, callbackVars, keyringVars, downgradeVars,
                   keyringHist>>

UpgradeCheck2 ==
    check_cancel_early("up_check2", "up_sync_sysupgrade")

\* tx.sync_sysupgrade(false) is entered
UpgradeStageCall ==
    /\ pc = "up_sync_sysupgrade"
    /\ inCall = "none"
    /\ inCall' = "sync_sysupgrade"
    /\ UNCHANGED <<op, pc, ret, flagVars, handle, cbs, trans, guard,
                   initResult, releaseCalls, commitCalls, cbFired, stream,
                   localVars, schedVars, questionVars, preflightVars,
                   orphanVars, cacheVars, returnVars, configVars, ignoredVars,
                   callbackVars, keyringVars, downgradeVars, keyringHist>>

\* if let Err(e) = tx.sync_sysupgrade(false) { .. }
UpgradeStageReturn ==
    /\ pc = "up_sync_sysupgrade"
    /\ inCall = "sync_sysupgrade"
    /\ inCall' = "none"
    /\ \E ok \in BOOLEAN :
          IF ok
          THEN /\ pc' = "up_check3"
               /\ UNCHANGED <<ret, stream>>
          ELSE /\ emit_event(Complete(FALSE,
                      "Failed to prepare system upgrade: {}", <<>>))
               /\ Return("Err")
    /\ UNCHANGED <<op, flagVars, handle, cbs, trans, guard, initResult,
                   releaseCalls, commitCalls, cbFired, localVars, schedVars,
                   questionVars, preflightVars, orphanVars, cacheVars,
                   returnVars, configVars, ignoredVars, callbackVars,
                   keyringVars, downgradeVars, keyringHist>>

UpgradeCheck3 ==
    check_cancel_early("up_check3", "up_prepare")

\* tx.prepare() is entered
UpgradePrepareCall ==
    /\ pc = "up_prepare"
    /\ inCall = "none"
    /\ inCall' = "trans_prepare"
    /\ UNCHANGED <<op, pc, ret, flagVars, handle, cbs, trans, guard,
                   initResult, releaseCalls, commitCalls, cbFired, stream,
                   localVars, schedVars, questionVars, preflightVars,
                   orphanVars, cacheVars, returnVars, configVars, ignoredVars,
                   callbackVars, keyringVars, downgradeVars, keyringHist>>

\* what a driver read of the transaction once prepare had returned:
\* is_empty() of the add and of the remove set, len() and the download sizes
\* of the add set
Plan(ok, add_is_empty, remove_is_empty, packages, download) ==
    [prepared |-> IF ok THEN "ok" ELSE "err", add_is_empty |-> add_is_empty,
     remove_is_empty |-> remove_is_empty, packages |-> packages,
     download |-> download]

NoPlan ==
    [prepared |-> "none", add_is_empty |-> TRUE, remove_is_empty |-> TRUE,
     packages |-> 0, download |-> 0]

\* variant: the test of the remove set is inverted
UpgradeNothingToDo_inverted(add_is_empty, remove_is_empty) ==
    add_is_empty /\ ~remove_is_empty

\* tx.add().is_empty() && tx.remove().is_empty()
UpgradeNothingToDo(add_is_empty, remove_is_empty) ==
    add_is_empty /\ remove_is_empty

\* tx.prepare() returns; the driver then reads the add set and, && being
\* lazy, the remove set only when the add set is empty (a set that is not
\* read is recorded as empty)
UpgradePrepareReturn ==
    /\ pc = "up_prepare"
    /\ inCall = "trans_prepare"
    /\ in_cb = "none"
    /\ inCall' = "none"
    /\ prepareCheck' = check_cancel
    /\ \E ok, add_is_empty, remove_is_empty \in BOOLEAN :
          /\ ~ok => add_is_empty
          /\ (~ok \/ ~add_is_empty) => remove_is_empty
          /\ plan' = Plan(ok, add_is_empty, remove_is_empty, 0, 0)
          /\ IF ~ok
             THEN /\ emit_event(Complete(FALSE,
                         "Failed to prepare transaction: {}", <<>>))
                  /\ Return("Err")
             ELSE IF UpgradeNothingToDo(add_is_empty, remove_is_empty)
             THEN /\ emit_event(Complete(TRUE, "System is up to date", <<>>))
                  /\ Return("Ok")
             ELSE /\ pc' = "up_commit"
                  /\ UNCHANGED <<ret, stream>>
    /\ UNCHANGED <<op, flagVars, handle, cbs, trans, guard, initResult,
                   releaseCalls, commitCalls, cbFired, loopVars, sampleVars,
                   errVars, commitReads, flagsAtCommit, schedVars, asked,
                   preflightVars, orphanVars, cacheVars, returnVars,
                   configVars, ignoredVars, callbackVars, keyringVars,
                   downgradeVars, keyringHist>>

\* the two samples taken right before tx.commit(), and its invocation
UpgradeCommitCall ==
    /\ pc = "up_commit"
    /\ inCall = "none"
    /\ was_cancelled_before' = is_cancelled
    /\ was_timed_out_before' = is_timed_out
    /\ inCall' = "trans_commit"
    /\ commitCalls' = commitCalls + 1
    /\ flagsAtCommit' = FlagsNow
    /\ UNCHANGED <<op, pc, ret, flagVars, handle, cbs, trans, guard,
                   initResult, releaseCalls, cbFired, stream, loopVars,
                   errVars, prepareCheck, commitReads, schedVars, questionVars,
                   preflightVars, orphanVars, cacheVars, returnVars,
                   configVars, ignoredVars, callbackVars, keyringVars,
                   downgradeVars, keyringHist>>

\* variant: the messages of remove_orphans, without the warning
UpgradeCommitFailure_plain(err_msg) ==
    LET cancelled_during == ~was_cancelled_before /\ is_cancelled
        timed_out_during == ~was_timed_out_before /\ is_timed_out
    IN  IF cancelled_during \/ error_indicates_interrupt(err_msg)
        THEN Complete(FALSE, "Operation interrupted", <<>>)
        ELSE IF timed_out_during
        THEN Complete(FALSE, "Operation timed out after {} seconds",
                 <<timeout_secs>>)
        ELSE Complete(FALSE, "Failed to commit transaction: {}", err_msg)

\* the Complete record run_upgrade writes for a failed commit
UpgradeCommitFailure(err_msg) ==
    LET cancelled_during == ~was_cancelled_before /\ is_cancelled
        timed_out_during == ~was_timed_out_before /\ is_timed_out
    IN  IF cancelled_during \/ error_indicates_interrupt(err_msg)
        THEN Complete(FALSE,
                 "Operation interrupted - system may be in inconsistent state",
                 <<>>)
        ELSE IF timed_out_during
        THEN Complete(FALSE,
                 "Operation timed out after {} seconds - system may be in inconsistent state",
                 <<timeout_secs>>)
        ELSE Complete(FALSE, "Failed to commit transaction: {}", err_msg)

\* tx.commit() returns
UpgradeCommitReturn ==
    /\ pc = "up_commit"
    /\ inCall = "trans_commit"
    /\ in_cb = "none"
    /\ inCall' = "none"
    /\ \E e \in {NoError} \cup ErrTexts :
          /\ commit_err' = e
          /\ IF e /= NoError
             THEN /\ emit_event(UpgradeCommitFailure(e))
                  /\ Return("Err")
             ELSE /\ emit_event(Complete(TRUE, "None", <<>>))
                  /\ Return("Ok")
    /\ UNCHANGED <<op, flagVars, handle, cbs, trans, guard, initResult,
                   releaseCalls, commitCalls, cbFired, loopVars, sampleVars,
                   interrupted_message, histVars, schedVars, questionVars,
                   preflightVars, orphanVars, cacheVars, returnVars,
                   configVars, ignoredVars, callbackVars, keyringVars,
                   downgradeVars, keyringHist>>

run_upgrade ==
    \/ UpgradeStart
    \/ UpgradeGetHandle
    \/ UpgradeAddIgnorepkg
    \/ UpgradeSetupCallbacks
    \/ UpgradeCheck1
    \/ UpgradeTransInit
    \/ UpgradeCheck2
    \/ UpgradeStageCall
    \/ UpgradeStageReturn
    \/ UpgradeCheck3
    \/ UpgradePrepareCall
    \/ UpgradePrepareReturn
    \/ UpgradeCommitCall
    \/ UpgradeCommitReturn

\* ------------------------------------------------------------------------
\* handlers/mutation.rs: remove_orphans
\* ------------------------------------------------------------------------
RemoveOrphansCallbacks ==
    {"log", "progress", "event"}

\* setup_signal_handler(); TimeoutGuard::new(..)
RoStart ==
    /\ op = "remove_orphans"
    /\ pc = "start"
    /\ setup_signal_handler
    /\ pc' = "ro_get_handle"
    /\ UNCHANGED <<op, ret, elapsed, timeout_secs, engineVars, stream,
                   localVars, schedVars, questionVars, preflightVars,
                   orphanVars, cacheVars, returnVars, configVars, ignoredVars,
                   callbackVars, keyringVars, downgradeVars, keyringHist>>

\* let mut handle = get_handle()?;
RoGetHandle ==
    /\ pc = "ro_get_handle"
    /\ \E ok \in BOOLEAN :
          IF ok
          THEN /\ handle' = TRUE
               /\ pc' = "ro_orphan_names"
               /\ UNCHANGED ret
          ELSE /\ Return("Err")
               /\ UNCHANGED handle
    /\ UNCHANGED <<op, flagVars, cbs, trans, guard, initResult, releaseCalls,
                   commitCalls, inCall, cbFired, stream, localVars, schedVars,
                   questionVars, preflightVars, orphanVars, cacheVars,
                   returnVars, configVars, ignoredVars, callbackVars,
                   keyringVars, downgradeVars, keyringHist>>

\* orphan_names is read from the local database; the callbacks are installed
\* when it is not empty
RoOrphanNames ==
    /\ pc = "ro_orphan_names"
    /\ \E n \in 0..MaxOrphans :
          /\ orphanCount' = n
          /\ orphansLeft' = n
          /\ IF n = 0
             THEN /\ emit_event(Complete(TRUE,
                         "No orphan packages to remove", <<>>))
                  /\ Return("Ok")
                  /\ UNCHANGED cbs
             ELSE /\ cbs' = RemoveOrphansCallbacks
                  /\ pc' = "ro_check1"
                  /\ UNCHANGED <<ret, stream>>
    /\ UNCHANGED <<op, flagVars, handle, trans, guard, initResult,
                   releaseCalls, commitCalls, inCall, cbFired, ignoreLeft,
                   staged, sampleVars, errVars, histVars, schedVars,
                   questionVars, preflightVars, orphanVars, cacheVars,
                   returnVars, configVars, ignoredVars, callbackVars,
                   keyringVars, downgradeVars, keyringHist>>

RoCheck1 ==
    check_cancel_early("ro_check1", "ro_trans_init")

\* handle.trans_init(TransFlag::RECURSE).map_err(..)?;
RoTransInit ==
    /\ pc = "ro_trans_init"
    /\ \E ok \in BOOLEAN :
          /\ initResult' = IF ok THEN "ok" ELSE "err"
          /\ trans' = IF ok THEN "active" ELSE trans
          /\ IF ok
             THEN /\ pc' = "ro_stage"
                  /\ UNCHANGED ret
             ELSE Return("Err")
    /\ UNCHANGED <<op, flagVars, handle, cbs, guard, releaseCalls, commitCalls,
                   inCall, cbFired, stream, localVars, schedVars, questionVars,
                   preflightVars, orphanVars, cacheVars, returnVars,
                   configVars, ignoredVars, callbackVars, keyringVars,
                   downgradeVars, keyringHist>>

\* one iteration of `for name in &orphan_names`
RoStage ==
    /\ pc = "ro_stage"
    /\ orphansLeft > 0
    /\ orphansLeft' = orphansLeft - 1
    /\ \E marked \in BOOLEAN :
          IF marked
          THEN /\ staged' = staged + 1
               /\ UNCHANGED stream
          ELSE /\ emit_event(Record("log", FALSE,
                      "Failed to mark {} for removal: {}", <<>>))
               /\ UNCHANGED staged
    /\ UNCHANGED <<op, pc, ret, flagVars, engineVars, ignoreLeft, orphanCount,
                   sampleVars, errVars, histVars, schedVars, questionVars,
                   preflightVars, orphanVars, cacheVars, returnVars,
                   configVars, ignoredVars, callbackVars, keyringVars,
                   downgradeVars, keyringHist>>

RoStageDone ==
    /\ pc = "ro_stage"
    /\ orphansLeft = 0
    /\ pc' = "ro_check2"
    /\ UNCHANGED <<op, ret, flagVars, engineVars, stream, localVars, schedVars,
                   questionVars, preflightVars, orphanVars, cacheVars,
                   returnVars, configVars, ignoredVars, callbackVars,
                   keyringVars, downgradeVars, keyringHist>>

RoCheck2 ==
    check_cancel_early("ro_check2", "ro_prepare")

\* handle.trans_prepare() is entered
RoPrepareCall ==
    /\ pc = "ro_prepare"
    /\ inCall = "none"
    /\ inCall' = "trans_prepare"
    /\ UNCHANGED <<op, pc, ret, flagVars, handle, cbs, trans, guard,
                   initResult, releaseCalls, commitCalls, cbFired, stream,
                   localVars, schedVars, questionVars, preflightVars,
                   orphanVars, cacheVars, returnVars, configVars, ignoredVars,
                   callbackVars, keyringVars, downgradeVars, keyringHist>>

\* handle.trans_prepare() returns, then the trans_remove emptiness test: the
\* remove set holds packages only when trans_remove_pkg accepted one
RoPrepareReturn ==
    /\ pc = "ro_prepare"
    /\ inCall = "trans_prepare"
    /\ in_cb = "none"
    /\ inCall' = "none"
    /\ \E res \in {"err", "empty", "nonempty"} :
          /\ res = "nonempty" => staged > 0
          /\ pc' = CASE res = "err" -> "ro_release_prepare_err"
                     [] res = "empty" -> "ro_release_empty"
                     [] res = "nonempty" -> "ro_commit"
    /\ UNCHANGED <<op, ret, flagVars, handle, cbs, trans, guard, initResult,
                   releaseCalls, commitCalls, cbFired, stream, localVars,
                   schedVars, questionVars, preflightVars, orphanVars,
                   cacheVars, returnVars, configVars, ignoredVars,
                   callbackVars, keyringVars, downgradeVars, keyringHist>>

\* let _ = handle.trans_release(); at one of its four call sites
RoReleaseCall ==
    /\ pc \in {"ro_release_prepare_err", "ro_release_empty",
               "ro_release_commit_err", "ro_release_ok"}
    /\ inCall = "none"
    /\ inCall' = "trans_release"
    /\ UNCHANGED <<op, pc, ret, flagVars, handle, cbs, trans, guard,
                   initResult, releaseCalls, commitCalls, cbFired, stream,
                   localVars, schedVars, questionVars, preflightVars,
                   orphanVars, cacheVars, returnVars, configVars, ignoredVars,
                   callbackVars, keyringVars, downgradeVars, keyringHist>>

RoCompletePrepareErr ==
    /\ pc = "ro_complete_prepare_err"
    /\ emit_event(Complete(FALSE, "Failed to prepare transaction: {}", <<>>))
    /\ Return("Err")
    /\ UNCHANGED <<op, flagVars, engineVars, localVars, schedVars,
                   questionVars, preflightVars, orphanVars, cacheVars,
                   returnVars, configVars, ignoredVars, callbackVars,
                   keyringVars, downgradeVars, keyringHist>>

RoCompleteEmpty ==
    /\ pc = "ro_complete_empty"
    /\ emit_event(Complete(TRUE, "No packages to remove", <<>>))
    /\ Return("Ok")
    /\ UNCHANGED <<op, flagVars, engineVars, localVars, schedVars,
                   questionVars, preflightVars, orphanVars, cacheVars,
                   returnVars, configVars, ignoredVars, callbackVars,
                   keyringVars, downgradeVars, keyringHist>>

\* the two samples taken right before handle.trans_commit(), and its
\* invocation
RoCommitCall ==
    /\ pc = "ro_commit"
    /\ inCall = "none"
    /\ was_cancelled_before' = is_cancelled
    /\ was_timed_out_before' = is_timed_out
    /\ inCall' = "trans_commit"
    /\ commitCalls' = commitCalls + 1
    /\ flagsAtCommit' = FlagsNow
    /\ UNCHANGED <<op, pc, ret, flagVars, handle, cbs, trans, guard,
                   initResult, releaseCalls, cbFired, stream, loopVars,
                   errVars, prepareCheck, commitReads, schedVars, questionVars,
                   preflightVars, orphanVars, cacheVars, returnVars,
                   configVars, ignoredVars, callbackVars, keyringVars,
                   downgradeVars, keyringHist>>

\* the Complete record remove_orphans writes for a failed commit
RoCommitFailure(err_msg) ==
    LET cancelled_during == ~was_cancelled_before /\ is_cancelled
        timed_out_during == ~was_timed_out_before /\ is_timed_out
    IN  IF cancelled_during \/ error_indicates_interrupt(err_msg)
        THEN Complete(FALSE, "Operation interrupted", <<>>)
        ELSE IF timed_out_during
        THEN Complete(FALSE, "Operation timed out after {} seconds",
                 <<timeout_secs>>)
        ELSE Complete(FALSE, "Failed to commit transaction: {}", err_msg)

\* handle.trans_commit() returns
RoCommitReturn ==
    /\ pc = "ro_commit"
    /\ inCall = "trans_commit"
    /\ in_cb = "none"
    /\ inCall' = "none"
    /\ \E e \in {NoError} \cup ErrTexts :
          /\ commit_err' = e
          /\ IF e /= NoError
             THEN /\ emit_event(RoCommitFailure(e))
                  /\ pc' = "ro_release_commit_err"
             ELSE /\ pc' = "ro_release_ok"
                  /\ UNCHANGED stream
    /\ UNCHANGED <<op, ret, flagVars, handle, cbs, trans, guard, initResult,
                   releaseCalls, commitCalls, cbFired, loopVars, sampleVars,
                   interrupted_message, histVars, schedVars, questionVars,
                   preflightVars, orphanVars, cacheVars, returnVars,
                   configVars, ignoredVars, callbackVars, keyringVars,
                   downgradeVars, keyringHist>>

\* return Err(anyhow!("Failed to commit transaction: {}", err_msg));
RoReturnCommitErr ==
    /\ pc = "ro_return_commit_err"
    /\ Return("Err")
    /\ UNCHANGED <<op, flagVars, engineVars, stream, localVars, schedVars,
                   questionVars, preflightVars, orphanVars, cacheVars,
                   returnVars, configVars, ignoredVars, callbackVars,
                   keyringVars, downgradeVars, keyringHist>>

RoCompleteOk ==
    /\ pc = "ro_complete_ok"
    /\ emit_event(Complete(TRUE, "Removed {} orphan package(s)",
           <<orphanCount>>))
    /\ Return("Ok")
    /\ UNCHANGED <<op, flagVars, engineVars, localVars, schedVars,
                   questionVars, preflightVars, orphanVars, cacheVars,
                   returnVars, configVars, ignoredVars, callbackVars,
                   keyringVars, downgradeVars, keyringHist>>

remove_orphans ==
    \/ RoStart
    \/ RoGetHandle
    \/ RoOrphanNames
    \/ RoCheck1
    \/ RoTransInit
    \/ RoStage
    \/ RoStageDone
    \/ RoCheck2
    \/ RoPrepareCall
    \/ RoPrepareReturn
    \/ RoReleaseCall
    \/ RoCompletePrepareErr
    \/ RoCompleteEmpty
    \/ RoCommitCall
    \/ RoCommitReturn
    \/ RoReturnCommitErr
    \/ RoCompleteOk

\* ------------------------------------------------------------------------
\* handlers/mutation.rs: sync_database
\* ------------------------------------------------------------------------
SyncCallbacks ==
    {"log", "dl"}

\* setup_signal_handler(); TimeoutGuard::new(..)
SyncStart ==
    /\ op = "sync_database"
    /\ pc = "start"
    /\ setup_signal_handler
    /\ pc' = "sy_check1"
    /\ UNCHANGED <<op, ret, elapsed, timeout_secs, engineVars, stream,
                   localVars, schedVars, questionVars, preflightVars,
                   orphanVars, cacheVars, returnVars, configVars, ignoredVars,
                   callbackVars, keyringVars, downgradeVars, keyringHist>>

SyncCheck1 ==
    check_cancel_early("sy_check1", "sy_get_handle")

\* let mut handle = get_handle()?; setup_log_cb; setup_dl_cb
SyncGetHandle ==
    /\ pc = "sy_get_handle"
    /\ \E ok \in BOOLEAN :
          IF ok
          THEN /\ handle' = TRUE
               /\ cbs' = SyncCallbacks
               /\ pc' = "sy_update"
               /\ UNCHANGED ret
          ELSE /\ Return("Err")
               /\ UNCHANGED <<handle, cbs>>
    /\ UNCHANGED <<op, flagVars, trans, guard, initResult, releaseCalls,
                   commitCalls, inCall, cbFired, stream, localVars, schedVars,
                   questionVars, preflightVars, orphanVars, cacheVars,
                   returnVars, configVars, ignoredVars, callbackVars,
                   keyringVars, downgradeVars, keyringHist>>

\* handle.syncdbs_mut().update(force) is entered
SyncUpdateCall ==
    /\ pc = "sy_update"
    /\ inCall = "none"
    /\ inCall' = "update"
    /\ UNCHANGED <<op, pc, ret, flagVars, handle, cbs, trans, guard,
                   initResult, releaseCalls, commitCalls, cbFired, stream,
                   localVars, schedVars, questionVars, preflightVars,
                   orphanVars, cacheVars, returnVars, configVars, ignoredVars,
                   callbackVars, keyringVars, downgradeVars, keyringHist>>

\* the two arms of `match handle.syncdbs_mut().update(force)`
SyncUpdateReturn ==
    /\ pc = "sy_update"
    /\ inCall = "update"
    /\ inCall' = "none"
    /\ \E ok \in BOOLEAN :
          LET check_result == check_cancel
          IN  IF ok
              THEN /\ IF check_result /= "Continue"
                      THEN emit_event(emit_cancellation_complete(check_result))
                      ELSE emit_event(Complete(TRUE, "None", <<>>))
                   /\ Return("Ok")
              ELSE IF check_result /= "Continue"
                   THEN /\ emit_event(emit_cancellation_complete(check_result))
                        /\ Return("Ok")
                   ELSE /\ emit_event(Complete(FALSE, "{}", <<>>))
                        /\ Return("Err")
    /\ UNCHANGED <<op, flagVars, handle, cbs, trans, guard, initResult,
                   releaseCalls, commitCalls, cbFired, localVars, schedVars,
                   questionVars, preflightVars, orphanVars, cacheVars,
                   returnVars, configVars, ignoredVars, callbackVars,
                   keyringVars, downgradeVars, keyringHist>>

sync_database ==
    \/ SyncStart
    \/ SyncCheck1
    \/ SyncGetHandle
    \/ SyncUpdateCall
    \/ SyncUpdateReturn

\* ------------------------------------------------------------------------
\* handlers/mutation.rs: preflight_upgrade
\* ------------------------------------------------------------------------
PreflightState_default ==
    [conflicts |-> <<>>, replacements |-> <<>>, removals |-> <<>>,
     providers |-> <<>>, import_keys |-> <<>>]

\* variant: the accumulator outlives the invocation
PreflightState_kept ==
    state

\* Rc::new(RefCell::new(PreflightState::default()))
PreflightState_new ==
    PreflightState_default

\* q.packages() / q.providers() of question id, in the order of the engine
Payload(id, n) ==
    [k \in 1..n |-> <<id, k>>]

\* variant: a RemovePkgs question leaves one entry, its first package
PreflightRecord_first_only(s, q, id, n) ==
    CASE q = "Conflict" -> [s EXCEPT !.conflicts = Append(@, id)]
      [] q = "RemovePkgs" -> [s EXCEPT !.removals = Append(@, <<id, 1>>)]
      [] q = "Replace" -> [s EXCEPT !.replacements = Append(@, id)]
      [] q = "SelectProvider" ->
            [s EXCEPT !.providers =
                Append(@, [dependency |-> id, providers |-> Payload(id, n)])]
      [] q = "ImportKey" -> [s EXCEPT !.import_keys = Append(@, id)]
      [] OTHER -> s

\* what the question callback of preflight_upgrade appends to the shared
\* PreflightState for question number id carrying n packages or candidates
PreflightRecord(s, q, id, n) ==
    CASE q = "Conflict" -> [s EXCEPT !.conflicts = Append(@, id)]
      [] q = "Corrupted" -> s
      [] q = "RemovePkgs" -> [s EXCEPT !.removals = @ \o Payload(id, n)]
      [] q = "Replace" -> [s EXCEPT !.replacements = Append(@, id)]
      [] q = "InstallIgnorepkg" -> s
      [] q = "SelectProvider" ->
            [s EXCEPT !.providers =
                Append(@, [dependency |-> id, providers |-> Payload(id, n)])]
      [] q = "ImportKey" -> [s EXCEPT !.import_keys = Append(@, id)]

\* variant: the recording responder confirms every question
PreflightAnswer_confirms_all(q) ==
    IF q = "SelectProvider" THEN "index 0" ELSE "true"

\* set_answer / set_index of the question callback of preflight_upgrade
PreflightAnswer(q) ==
    CASE q = "Conflict" -> "true"
      [] q = "Corrupted" -> "false"
      [] q = "RemovePkgs" -> "true"
      [] q = "Replace" -> "true"
      [] q = "InstallIgnorepkg" -> "false"
      [] q = "SelectProvider" -> "index 0"
      [] q = "ImportKey" -> "true"

\* PreflightResponse { .., ..Default::default() }
PreflightResponse(success, error, s, packages, download) ==
    [success |-> success, error |-> error, conflicts |-> s.conflicts,
     replacements |-> s.replacements, removals |-> s.removals,
     providers |-> s.providers, import_keys |-> s.import_keys,
     packages_to_upgrade |-> packages, total_download_size |-> download]

\* println!("{}", serde_json::to_string(&response)?); return Ok(());
PreflightPrint(r) ==
    /\ response' = Append(response, r)
    /\ Return("Ok")

\* one thing the engine did: the result of a call or a question it raised
EngineEvent(call, ok, q, n, sizes) ==
    [call |-> call, ok |-> ok, q |-> q, n |-> n, sizes |-> sizes]

\* the engine is deterministic: against an unchanged database the second
\* invocation sees what the first one saw
Engine(ev) ==
    /\ run = 2 => (script /= <<>> /\ Head(script) = ev)
    /\ script' = IF run = 1 THEN Append(script, ev) ELSE Tail(script)

\* let mut handle = get_handle()?;
PreflightGetHandle ==
    /\ op = "preflight"
    /\ pc = "start"
    /\ \E ok \in BOOLEAN :
          /\ Engine(EngineEvent("get_handle", ok, "", 0, <<>>))
          /\ IF ok
             THEN /\ handle' = TRUE
                  /\ pc' = "pf_add_ignorepkg"
                  /\ UNCHANGED ret
             ELSE /\ Return("Err")
                  /\ UNCHANGED handle
    /\ UNCHANGED <<op, flagVars, cbs, trans, guard, initResult, releaseCalls,
                   commitCalls, inCall, cbFired, stream, localVars, schedVars,
                   questionVars, ignore_pkgs, state, response, run, results,
                   orphanVars, cacheVars, returnVars, configVars, ignoredVars,
                   callbackVars, keyringVars, downgradeVars, keyringHist>>

\* handle.add_ignorepkg(pkg_name.as_str())?;
PreflightAddIgnorepkg ==
    /\ pc = "pf_add_ignorepkg"
    /\ ignoreLeft > 0
    /\ ignoreLeft' = ignoreLeft - 1
    /\ \E ok \in BOOLEAN :
          /\ Engine(EngineEvent("add_ignorepkg", ok, "", 0, <<>>))
          /\ IF ok
             THEN UNCHANGED <<pc, ret>>
             ELSE Return("Err")
    /\ UNCHANGED <<op, flagVars, engineVars, stream, orphansLeft, orphanCount,
                   staged, sampleVars, errVars, histVars, schedVars,
                   questionVars, ignore_pkgs, state, response, run, results,
                   orphanVars, cacheVars, returnVars, configVars, ignoredVars,
                   callbackVars, keyringVars, downgradeVars, keyringHist>>

\* the fresh PreflightState and handle.set_question_cb
PreflightSetQuestionCb ==
    /\ pc = "pf_add_ignorepkg"
    /\ ignoreLeft = 0
    /\ state' = PreflightState_new
    /\ cbs' = {"question"}
    /\ pc' = "pf_trans_init"
    /\ UNCHANGED <<op, ret, flagVars, handle, trans, guard, initResult,
                   releaseCalls, commitCalls, inCall, cbFired, stream,
                   localVars, schedVars, questionVars, ignore_pkgs, response,
                   run, script, results, orphanVars, cacheVars, returnVars,
                   configVars, ignoredVars, callbackVars, keyringVars,
                   downgradeVars, keyringHist>>

\* let mut tx = match TransactionGuard::new(..) { .. }; trans_init fails
\* whenever the database is still locked by a transaction never released
PreflightTransInit ==
    /\ pc = "pf_trans_init"
    /\ \E ok \in BOOLEAN :
          /\ Engine(EngineEvent("trans_init", ok, "", 0, <<>>))
          /\ TransactionGuard_new(ok /\ trans /= "active")
          /\ IF ok /\ trans /= "active"
             THEN /\ pc' = "pf_sync_sysupgrade"
                  /\ UNCHANGED <<ret, response>>
             ELSE PreflightPrint(PreflightResponse(FALSE, "{}",
                      PreflightState_default, 0, 0))
    /\ UNCHANGED <<op, flagVars, handle, cbs, releaseCalls, commitCalls,
                   inCall, cbFired, stream, localVars, schedVars, questionVars,
                   ignore_pkgs, state, run, results, orphanVars, cacheVars,
                   returnVars, configVars, ignoredVars, callbackVars,
                   keyringVars, downgradeVars, keyringHist>>

\* tx.sync_sysupgrade(false) is entered
PreflightStageCall ==
    /\ pc = "pf_sync_sysupgrade"
    /\ inCall = "none"
    /\ inCall' = "sync_sysupgrade"
    /\ UNCHANGED <<op, pc, ret, flagVars, handle, cbs, trans, guard,
                   initResult, releaseCalls, commitCalls, cbFired, stream,
                   localVars, schedVars, questionVars, preflightVars,
                   orphanVars, cacheVars, returnVars, configVars, ignoredVars,
                   callbackVars, keyringVars, downgradeVars, keyringHist>>

\* if let Err(e) = tx.sync_sysupgrade(false) { .. }
PreflightStageReturn ==
    /\ pc = "pf_sync_sysupgrade"
    /\ inCall = "sync_sysupgrade"
    /\ inCall' = "none"
    /\ \E ok \in BOOLEAN :
          /\ Engine(EngineEvent("sync_sysupgrade", ok, "", 0, <<>>))
          /\ IF ok
             THEN /\ pc' = "pf_prepare"
                  /\ UNCHANGED <<ret, response>>
             ELSE PreflightPrint(PreflightResponse(FALSE,
                      "Failed to prepare system upgrade: {}",
                      PreflightState_default, 0, 0))
    /\ UNCHANGED <<op, flagVars, handle, cbs, trans, guard, initResult,
                   releaseCalls, commitCalls, cbFired, stream, localVars,
                   schedVars, questionVars, ignore_pkgs, state, run, results,
                   orphanVars, cacheVars, returnVars, configVars, ignoredVars,
                   callbackVars, keyringVars, downgradeVars, keyringHist>>

\* question callback of preflight_upgrade
CbQuestionPreflight ==
    /\ CallbackRuns("question")
    /\ op = "preflight"
    /\ inCall \in {"sync_sysupgrade", "trans_prepare"}
    /\ \E q \in Questions :
          \E n \in QuestionPayloads(q) :
             /\ Engine(EngineEvent("question", TRUE, q, n, <<>>))
             /\ state' = PreflightRecord(state, q, Len(asked) + 1, n)
             /\ asked' = Append(asked, Asked(q, n, inCall, PreflightAnswer(q), 0))
    /\ UNCHANGED <<op, pc, ret, flagVars, handle, cbs, trans, guard,
                   initResult, releaseCalls, commitCalls, inCall, stream,
                   loopVars, sampleVars, errVars, prepareCheck, flagsAtCommit,
                   schedVars, plan, ignore_pkgs, response, run, results,
                   orphanVars, cacheVars, returnVars, configVars, ignoredVars,
                   callbackVars, keyringVars, downgradeVars, keyringHist>>

\* tx.prepare() is entered
PreflightPrepareCall ==
    /\ pc = "pf_prepare"
    /\ inCall = "none"
    /\ inCall' = "trans_prepare"
    /\ UNCHANGED <<op, pc, ret, flagVars, handle, cbs, trans, guard,
                   initResult, releaseCalls, commitCalls, cbFired, stream,
                   localVars, schedVars, questionVars, preflightVars,
                   orphanVars, cacheVars, returnVars, configVars, ignoredVars,
                   callbackVars, keyringVars, downgradeVars, keyringHist>>

\* download_size() of the packages of the add set
DownloadSizes ==
    UNION {[1..k -> 0..MaxDownloadSize] : k \in 0..MaxAdd}

\* tx.add().iter().map(|p| p.download_size()).sum()
RECURSIVE total_download_size(_)
total_download_size(sizes) ==
    IF sizes = <<>> THEN 0
    ELSE Head(sizes) + total_download_size(Tail(sizes))

\* the response preflight_upgrade builds once prepare has returned
PreflightResult(prepare_success, s, packages, download) ==
    IF ~prepare_success
    THEN PreflightResponse(FALSE, "Failed to prepare transaction", s, 0, 0)
    ELSE IF packages = 0
    THEN PreflightResponse(TRUE, "None", PreflightState_default, 0, 0)
    ELSE PreflightResponse(TRUE, "None", s, packages, download)

\* let prepare_success = tx.prepare().is_ok(); the two snapshots of the add
\* set; the response
PreflightPrepareReturn ==
    /\ pc = "pf_prepare"
    /\ inCall = "trans_prepare"
    /\ inCall' = "none"
    /\ \E ok \in BOOLEAN, sizes \in DownloadSizes :
          /\ Engine(EngineEvent("trans_prepare", ok, "", 0, sizes))
          /\ plan' = Plan(ok, sizes = <<>>, TRUE, Len(sizes),
                          total_download_size(sizes))
          /\ PreflightPrint(PreflightResult(ok, state, Len(sizes),
                                            total_download_size(sizes)))
    /\ UNCHANGED <<op, flagVars, handle, cbs, trans, guard, initResult,
                   releaseCalls, commitCalls, cbFired, stream, localVars,
                   schedVars, asked, ignore_pkgs, state, run, results,
                   orphanVars, cacheVars, returnVars, configVars, ignoredVars,
                   callbackVars, keyringVars, downgradeVars, keyringHist>>

\* the next invocation of preflight_upgrade with the same ignore list: the
\* locals are new, the database and its lock are as the first one left them
PreflightAgain ==
    /\ op = "preflight"
    /\ pc = "done"
    /\ run = 1
    /\ run' = 2
    /\ pc' = "start"
    /\ ret' = "none"
    /\ initResult' = "none"
    /\ releaseCalls' = 0
    /\ cbFired' = 0
    /\ ignoreLeft' = ignore_pkgs
    /\ asked' = <<>>
    /\ plan' = NoPlan
    /\ response' = <<>>
    /\ UNCHANGED <<op, flagVars, handle, cbs, trans, guard, commitCalls,
                   inCall, stream, orphansLeft, orphanCount, staged,
                   sampleVars, errVars, histVars, schedVars, ignore_pkgs,
                   state, script, results, orphanVars, cacheVars, returnVars,
                   configVars, ignoredVars, callbackVars, keyringVars,
                   downgradeVars, keyringHist>>

preflight_upgrade ==
    \/ PreflightGetHandle
    \/ PreflightAddIgnorepkg
    \/ PreflightSetQuestionCb
    \/ PreflightTransInit
    \/ PreflightStageCall
    \/ PreflightStageReturn
    \/ CbQuestionPreflight
    \/ PreflightPrepareCall
    \/ PreflightPrepareReturn
    \/ PreflightAgain

\* ------------------------------------------------------------------------
\* The orphan queries: handlers/query.rs list_orphans and the orphan_names
\* block of remove_orphans, over one local database
\* ------------------------------------------------------------------------
PackageNames ==
    1..MaxLocalPkgs

PackageReasons ==
    {"Explicit", "Depend"}

\* required_by() and optional_for() of a package: no name or one name
NameLists ==
    {<<>>} \cup {<<n>> : n \in PackageNames}

\* what the two queries read of a package of localdb.pkgs()
Packages ==
    [reason : PackageReasons, required_by : NameLists,
     optional_for : NameLists]

\* a query that has not run
NoQuery ==
    [ret |-> "none", names |-> <<>>]

\* localdb.pkgs(), by name, in the order of the database
pkgs(db) ==
    [i \in 1..Len(db) |-> i]

\* variant: the optional-for list is not looked at
list_orphans_filter_no_optional(pkg) ==
    /\ pkg.reason = "Depend"
    /\ pkg.required_by = <<>>

\* the closure list_orphans hands to filter
list_orphans_filter(pkg) ==
    /\ pkg.reason = "Depend"
    /\ pkg.required_by = <<>>
    /\ pkg.optional_for = <<>>

\* the closure remove_orphans hands to filter
remove_orphans_filter(pkg) ==
    /\ pkg.reason = "Depend"
    /\ pkg.required_by = <<>>
    /\ pkg.optional_for = <<>>

\* list_orphans: get_handle()?, then the names of the response
list_orphans ==
    /\ op = "orphans"
    /\ orphans = NoQuery
    /\ \E ok \in BOOLEAN :
          orphans' = IF ok
                     THEN [ret |-> "Ok",
                           names |-> SelectSeq(pkgs(localdb),
                               LAMBDA i : list_orphans_filter(localdb[i]))]
                     ELSE [ret |-> "Err", names |-> <<>>]
    /\ UNCHANGED <<op, pc, ret, flagVars, engineVars, stream, localVars,
                   schedVars, questionVars, preflightVars, localdb,
                   orphan_names, cacheVars, returnVars, configVars,
                   ignoredVars, callbackVars, keyringVars, downgradeVars,
                   keyringHist>>

\* remove_orphans up to `let orphan_names: Vec<String> = { .. }`
RemoveOrphansNames ==
    /\ op = "orphans"
    /\ orphan_names = NoQuery
    /\ \E ok \in BOOLEAN :
          orphan_names' = IF ok
                          THEN [ret |-> "Ok",
                                names |-> SelectSeq(pkgs(localdb),
                                    LAMBDA i :
                                       remove_orphans_filter(localdb[i]))]
                          ELSE [ret |-> "Err", names |-> <<>>]
    /\ UNCHANGED <<op, pc, ret, flagVars, engineVars, stream, localVars,
                   schedVars, questionVars, preflightVars, localdb, orphans,
                   cacheVars, returnVars, configVars, ignoredVars,
                   callbackVars, keyringVars, downgradeVars, keyringHist>>

\* ------------------------------------------------------------------------
\* db.rs: the repository-name lookup cache, and the database syncs of one
\* process.  The content of the sync databases, and so of a map built from
\* them, is identified by the number of successful syncs so far.
\* ------------------------------------------------------------------------
\* Option<Arc<RepoMap>>: None
NoMap ==
    [some |-> FALSE, map |-> 0]

\* Option<Arc<RepoMap>>: Some(map)
SomeMap(map) ==
    [some |-> TRUE, map |-> map]

\* no call of get_repo_map yet
NoRepoMap ==
    [returned |-> FALSE, map |-> 0, syncs |-> 0]

build_repo_map_uncached ==
    syncdbs

\* get_repo_map; syncs records the state of the databases it was called on
get_repo_map ==
    /\ op = "cache"
    /\ IF REPO_MAP_CACHE.some
       THEN /\ repo_map' = [returned |-> TRUE, map |-> REPO_MAP_CACHE.map,
                            syncs |-> syncdbs]
            /\ UNCHANGED REPO_MAP_CACHE
       ELSE /\ REPO_MAP_CACHE' = SomeMap(build_repo_map_uncached)
            /\ repo_map' = [returned |-> TRUE, map |-> build_repo_map_uncached,
                            syncs |-> syncdbs]
    /\ UNCHANGED <<op, pc, ret, flagVars, engineVars, stream, localVars,
                   schedVars, questionVars, preflightVars, orphanVars, syncdbs,
                   returnVars, configVars, ignoredVars, callbackVars,
                   keyringVars, downgradeVars, keyringHist>>

invalidate_repo_map_cache ==
    REPO_MAP_CACHE' = NoMap

\* sync_database as the cache sees it: match handle.syncdbs_mut().update(force)
CacheSyncDatabase ==
    /\ op = "cache"
    /\ syncdbs < MaxSyncs
    /\ \E ok \in BOOLEAN :
          IF ok
          THEN /\ syncdbs' = syncdbs + 1
               /\ invalidate_repo_map_cache
          ELSE UNCHANGED <<REPO_MAP_CACHE, syncdbs>>
    /\ UNCHANGED <<op, pc, ret, flagVars, engineVars, stream, localVars,
                   schedVars, questionVars, preflightVars, orphanVars,
                   repo_map, returnVars, configVars, ignoredVars, callbackVars,
                   keyringVars, downgradeVars, keyringHist>>

\* scheduled_run as the cache sees it: handle.syncdbs_mut().update(false)
CacheScheduledRun ==
    /\ op = "cache"
    /\ syncdbs < MaxSyncs
    /\ \E ok \in BOOLEAN :
          syncdbs' = IF ok THEN syncdbs + 1 ELSE syncdbs
    /\ UNCHANGED <<op, pc, ret, flagVars, engineVars, stream, localVars,
                   schedVars, questionVars, preflightVars, orphanVars,
                   REPO_MAP_CACHE, repo_map, returnVars, configVars,
                   ignoredVars, callbackVars, keyringVars, downgradeVars,
                   keyringHist>>

\* ------------------------------------------------------------------------
\* config.rs: AppConfig::save in one process and AppConfig::load in others,
\* on the one file at CONFIG_PATH.  The file holds the previous
\* configuration ("old"), the one being saved ("new"), a prefix of it
\* ("partial") or nothing ("empty").
\* ------------------------------------------------------------------------
\* the process that saves
Saver ==
    0

\* the processes that load
Loaders ==
    1..MaxLoads

\* flock: a shared lock is granted unless another process holds the
\* exclusive one
lock_shared(p) ==
    /\ \A l \in config_locks : l[2] /= "exclusive" \/ l[1] = p
    /\ config_locks' = config_locks \cup {<<p, "shared">>}

\* flock: the exclusive lock is granted when no other process holds a lock
lock_exclusive(p) ==
    /\ \A l \in config_locks : l[1] = p
    /\ config_locks' = config_locks \cup {<<p, "exclusive">>}

\* the File is dropped: its lock goes with it
drop_file(p) ==
    config_locks' = {l \in config_locks : l[1] /= p}

\* serde_json::from_str(&content)
from_str(text) ==
    IF text \in {"old", "new"} THEN text ELSE "Err"

\* save: OpenOptions::new().write(true).create(true).truncate(true).open(path)
SaveOpen ==
    /\ op = "config"
    /\ config_pc[Saver] = "start"
    /\ \E ok \in BOOLEAN :
          IF ok
          THEN /\ config_file' = "empty"
               /\ config_pc' = [config_pc EXCEPT ![Saver] = "lock_exclusive"]
          ELSE /\ config_pc' = [config_pc EXCEPT ![Saver] = "done"]
               /\ UNCHANGED config_file
    /\ UNCHANGED <<op, pc, ret, flagVars, engineVars, stream, localVars,
                   schedVars, questionVars, preflightVars, orphanVars,
                   cacheVars, returnVars, config_locks, content, ignoredVars,
                   callbackVars, keyringVars, downgradeVars, keyringHist>>

\* save: file.lock_exclusive() returns
SaveLock ==
    /\ op = "config"
    /\ config_pc[Saver] = "lock_exclusive"
    /\ lock_exclusive(Saver)
    /\ config_pc' = [config_pc EXCEPT ![Saver] = "write_all"]
    /\ UNCHANGED <<op, pc, ret, flagVars, engineVars, stream, localVars,
                   schedVars, questionVars, preflightVars, orphanVars,
                   cacheVars, returnVars, config_file, content, ignoredVars,
                   callbackVars, keyringVars, downgradeVars, keyringHist>>

\* save: file.write_all(content.as_bytes()) has written some of the bytes
SaveWriteSome ==
    /\ op = "config"
    /\ config_pc[Saver] = "write_all"
    /\ config_file = "empty"
    /\ config_file' = "partial"
    /\ UNCHANGED <<op, pc, ret, flagVars, engineVars, stream, localVars,
                   schedVars, questionVars, preflightVars, orphanVars,
                   cacheVars, returnVars, config_locks, config_pc, content,
                   ignoredVars, callbackVars, keyringVars, downgradeVars,
                   keyringHist>>

\* save: write_all returns, with all bytes written or an error; the File is
\* dropped on return
SaveWriteAll ==
    /\ op = "config"
    /\ config_pc[Saver] = "write_all"
    /\ \E ok \in BOOLEAN :
          config_file' = IF ok THEN "new" ELSE config_file
    /\ drop_file(Saver)
    /\ config_pc' = [config_pc EXCEPT ![Saver] = "done"]
    /\ UNCHANGED <<op, pc, ret, flagVars, engineVars, stream, localVars,
                   schedVars, questionVars, preflightVars, orphanVars,
                   cacheVars, returnVars, content, ignoredVars, callbackVars,
                   keyringVars, downgradeVars, keyringHist>>

\* load: path.exists(), File::open(path)
LoadOpen(p) ==
    /\ op = "config"
    /\ config_pc[p] = "start"
    /\ \E ok \in BOOLEAN :
          config_pc' = [config_pc EXCEPT ![p] =
                           IF config_file = "absent" \/ ~ok THEN "done"
                           ELSE "lock_shared"]
    /\ UNCHANGED <<op, pc, ret, flagVars, engineVars, stream, localVars,
                   schedVars, questionVars, preflightVars, orphanVars,
                   cacheVars, returnVars, config_file, config_locks, content,
                   ignoredVars, callbackVars, keyringVars, downgradeVars,
                   keyringHist>>

\* load: file.lock_shared() returns
LoadLock(p) ==
    /\ op = "config"
    /\ config_pc[p] = "lock_shared"
    /\ lock_shared(p)
    /\ config_pc' = [config_pc EXCEPT ![p] = "read_to_string"]
    /\ UNCHANGED <<op, pc, ret, flagVars, engineVars, stream, localVars,
                   schedVars, questionVars, preflightVars, orphanVars,
                   cacheVars, returnVars, config_file, content, ignoredVars,
                   callbackVars, keyringVars, downgradeVars, keyringHist>>

\* load: fs::read_to_string(path), serde_json::from_str, and the File is
\* dropped on return
LoadRead(p) ==
    /\ op = "config"
    /\ config_pc[p] = "read_to_string"
    /\ content' = [content EXCEPT ![p] = config_file]
    /\ drop_file(p)
    /\ config_pc' = [config_pc EXCEPT ![p] = "done"]
    /\ UNCHANGED <<op, pc, ret, flagVars, engineVars, stream, localVars,
                   schedVars, questionVars, preflightVars, orphanVars,
                   cacheVars, returnVars, config_file, ignoredVars,
                   callbackVars, keyringVars, downgradeVars, keyringHist>>

AppConfig_save ==
    \/ SaveOpen
    \/ SaveLock
    \/ SaveWriteSome
    \/ SaveWriteAll

AppConfig_load ==
    \E p \in Loaders :
       \/ LoadOpen(p)
       \/ LoadLock(p)
       \/ LoadRead(p)

\* ------------------------------------------------------------------------
\* config.rs: add_ignored, remove_ignored and is_ignored on one AppConfig.
\* A package name is a number; the order of the numbers is the order of the
\* strings.
\* ------------------------------------------------------------------------
IgnoreNames ==
    1..MaxNames

\* no call yet
NoCall ==
    [fn |-> "none", package |-> 0, ret |-> FALSE, before |-> <<>>]

\* Vec::contains
vec_contains(list, x) ==
    \E i \in 1..Len(list) : list[i] = x

\* Iterator::position: the first index that holds x, 0 for None
position(list, x) ==
    IF vec_contains(list, x)
    THEN CHOOSE i \in 1..Len(list) :
            /\ list[i] = x
            /\ \A j \in 1..(i - 1) : list[j] /= x
    ELSE 0

\* Vec::remove(pos)
vec_remove(list, pos) ==
    SubSeq(list, 1, pos - 1) \o SubSeq(list, pos + 1, Len(list))

\* x put into an ascending list, in front of the first larger element
RECURSIVE insert_sorted(_, _)
insert_sorted(list, x) ==
    IF list = <<>> THEN <<x>>
    ELSE IF x < Head(list) THEN <<x>> \o list
    ELSE <<Head(list)>> \o insert_sorted(Tail(list), x)

\* Vec::sort: stable, ascending
RECURSIVE vec_sort(_)
vec_sort(list) ==
    IF list = <<>> THEN <<>>
    ELSE insert_sorted(vec_sort(SubSeq(list, 1, Len(list) - 1)),
                       list[Len(list)])

\* variant: the list is not sorted after the push
add_ignored_unsorted(list, package) ==
    IF ~vec_contains(list, package)
    THEN [list |-> Append(list, package), ret |-> TRUE]
    ELSE [list |-> list, ret |-> FALSE]

\* AppConfig::add_ignored: the list afterwards and the value returned
add_ignored(list, package) ==
    IF ~vec_contains(list, package)
    THEN [list |-> vec_sort(Append(list, package)), ret |-> TRUE]
    ELSE [list |-> list, ret |-> FALSE]

\* AppConfig::remove_ignored: the list afterwards and the value returned
remove_ignored(list, package) ==
    LET pos == position(list, package)
    IN  IF pos /= 0
        THEN [list |-> vec_remove(list, pos), ret |-> TRUE]
        ELSE [list |-> list, ret |-> FALSE]

\* AppConfig::is_ignored
is_ignored(list, package) ==
    vec_contains(list, package)

\* one call of add_ignored, remove_ignored or is_ignored
IgnoredCall(fn, package) ==
    /\ op = "ignored"
    /\ LET r == CASE fn = "add_ignored" ->
                       add_ignored(ignored_packages, package)
                  [] fn = "remove_ignored" ->
                       remove_ignored(ignored_packages, package)
                  [] OTHER ->
                       [list |-> ignored_packages,
                        ret |-> is_ignored(ignored_packages, package)]
       IN  /\ ignored_packages' = r.list
           /\ last_call' = [fn |-> fn, package |-> package, ret |-> r.ret,
                            before |-> ignored_packages]
    /\ UNCHANGED <<op, pc, ret, flagVars, engineVars, stream, localVars,
                   schedVars, questionVars, preflightVars, orphanVars,
                   cacheVars, returnVars, configVars, callbackVars,
                   keyringVars, downgradeVars, keyringHist>>

AddIgnored ==
    \E package \in IgnoreNames : IgnoredCall("add_ignored", package)

RemoveIgnored ==
    \E package \in IgnoreNames : IgnoredCall("remove_ignored", package)

IsIgnored ==
    \E package \in IgnoreNames : IgnoredCall("is_ignored", package)

\* ------------------------------------------------------------------------
\* util.rs: handle_commit_error, called on its own
\* ------------------------------------------------------------------------
InterruptedMessages ==
    {"Operation interrupted", "Operation cancelled"}

\* anyhow::anyhow!(message, arg)
anyhow(message, arg) ==
    [message |-> message, arg |-> arg]

\* the Ok side of a Result
NoAnyhow ==
    [message |-> "", arg |-> <<>>]

\* variant: the deadline is tested before the interruption
handle_commit_error_timeout_first(err_msg, cancelled_before, timed_out_before, message) ==
    LET cancelled_during == ~cancelled_before /\ is_cancelled
        timed_out_during == ~timed_out_before /\ is_timed_out
    IN  IF timed_out_during
        THEN [event |-> Complete(FALSE,
                            "Operation timed out after {} seconds",
                            <<timeout_secs>>),
              result |-> "Ok(false)", error |-> NoAnyhow]
        ELSE IF cancelled_during \/ error_indicates_interrupt(err_msg)
        THEN [event |-> Complete(FALSE, message, <<>>),
              result |-> "Ok(false)", error |-> NoAnyhow]
        ELSE [event |-> Complete(FALSE, "Failed to commit transaction: {}",
                            err_msg),
              result |-> "Err",
              error |-> anyhow("Failed to commit transaction: {}", err_msg)]

\* variant: the sample taken before the commit is not consulted
handle_commit_error_ignores_before(err_msg, cancelled_before, timed_out_before, message) ==
    LET cancelled_during == is_cancelled
        timed_out_during == ~timed_out_before /\ is_timed_out
    IN  IF cancelled_during \/ error_indicates_interrupt(err_msg)
        THEN [event |-> Complete(FALSE, message, <<>>),
              result |-> "Ok(false)", error |-> NoAnyhow]
        ELSE IF timed_out_during
        THEN [event |-> Complete(FALSE,
                            "Operation timed out after {} seconds",
                            <<timeout_secs>>),
              result |-> "Ok(false)", error |-> NoAnyhow]
        ELSE [event |-> Complete(FALSE, "Failed to commit transaction: {}",
                            err_msg),
              result |-> "Err",
              error |-> anyhow("Failed to commit transaction: {}", err_msg)]

\* variant: a genuine failure is reported but not returned as an error
handle_commit_error_swallows(err_msg, cancelled_before, timed_out_before, message) ==
    LET cancelled_during == ~cancelled_before /\ is_cancelled
        timed_out_during == ~timed_out_before /\ is_timed_out
    IN  IF cancelled_during \/ error_indicates_interrupt(err_msg)
        THEN [event |-> Complete(FALSE, message, <<>>),
              result |-> "Ok(false)", error |-> NoAnyhow]
        ELSE IF timed_out_during
        THEN [event |-> Complete(FALSE,
                            "Operation timed out after {} seconds",
                            <<timeout_secs>>),
              result |-> "Ok(false)", error |-> NoAnyhow]
        ELSE [event |-> Complete(FALSE, "Failed to commit transaction: {}",
                            err_msg),
              result |-> "Ok(false)", error |-> NoAnyhow]

\* the Complete record handle_commit_error writes, and what it returns
handle_commit_error(err_msg, cancelled_before, timed_out_before, message) ==
    LET cancelled_during == ~cancelled_before /\ is_cancelled
        timed_out_during == ~timed_out_before /\ is_timed_out
    IN  IF cancelled_during \/ error_indicates_interrupt(err_msg)
        THEN [event |-> Complete(FALSE, message, <<>>),
              result |-> "Ok(false)", error |-> NoAnyhow]
        ELSE IF timed_out_during
        THEN [event |-> Complete(FALSE,
                            "Operation timed out after {} seconds",
                            <<timeout_secs>>),
              result |-> "Ok(false)", error |-> NoAnyhow]
        ELSE [event |-> Complete(FALSE, "Failed to commit transaction: {}",
                            err_msg),
              result |-> "Err",
              error |-> anyhow("Failed to commit transaction: {}", err_msg)]

\* one call of handle_commit_error on the arguments drawn by InitClassify
HandleCommitError ==
    /\ op = "handle_commit_error"
    /\ pc = "start"
    /\ LET r == handle_commit_error(commit_err, was_cancelled_before,
                    was_timed_out_before, interrupted_message)
       IN  /\ emit_event(r.event)
           /\ ret' = r.result
           /\ results' = <<[out |-> <<r.event>>, ret |-> r.result,
                            error |-> r.error]>>
    /\ pc' = "done"
    /\ UNCHANGED <<op, flagVars, engineVars, localVars, schedVars,
                   questionVars, ignore_pkgs, state, response, run, script,
                   orphanVars, cacheVars, returnVars, configVars, ignoredVars,
                   callbackVars, keyringVars, downgradeVars, keyringHist>>

\* ------------------------------------------------------------------------
\* handlers/scheduled.rs: scheduled_run
\* ------------------------------------------------------------------------
ScheduleModes ==
    {"check", "upgrade"}

ScheduledCallbacks ==
    {"log", "dl"}

LogEntry(success, checked, upgraded, error, arg, details, reasons) ==
    [success |-> success, packages_checked |-> checked,
     packages_upgraded |-> upgraded, error |-> error, arg |-> arg,
     details |-> details, reasons |-> reasons]

\* log_run(&entry)?; followed by `return r`
log_run(entry, r) ==
    \E written \in BOOLEAN :
       /\ runLog' = IF written THEN Append(runLog, entry) ELSE runLog
       /\ Return(IF written THEN r ELSE "Err")

\* the check_cancel tests of scheduled_run at position p, falling through to q
ScheduledCheck(p, q, error) ==
    /\ pc = p
    /\ inCall = "none"
    /\ IF check_cancel /= "Continue"
       THEN log_run(LogEntry(FALSE, IF p = "sc_check3" THEN packages_checked
                                    ELSE 0, 0, error, <<>>,
                             IF p = "sc_check3" THEN "updates" ELSE "",
                             <<>>), "Err")
       ELSE /\ pc' = q
            /\ UNCHANGED <<ret, runLog>>
    /\ UNCHANGED <<op, flagVars, engineVars, stream, localVars, config,
                   packages_checked, packages_to_upgrade, qflags, detected,
                   questionVars, preflightVars, orphanVars, cacheVars,
                   returnVars, configVars, ignoredVars, callbackVars,
                   keyringVars, downgradeVars, keyringHist>>

\* AppConfig::load()?, the enabled gate, setup_signal_handler, TimeoutGuard
SchedStart ==
    /\ op = "scheduled_run"
    /\ pc = "start"
    /\ \E loaded \in BOOLEAN :
          IF ~loaded
          THEN /\ Return("Err")
               /\ UNCHANGED cancelled
          ELSE IF ~config.enabled
          THEN /\ Return("Ok")
               /\ UNCHANGED cancelled
          ELSE /\ setup_signal_handler
               /\ pc' = "sc_check1"
               /\ UNCHANGED ret
    /\ UNCHANGED <<op, elapsed, timeout_secs, engineVars, stream, localVars,
                   schedVars, questionVars, preflightVars, orphanVars,
                   cacheVars, returnVars, configVars, ignoredVars,
                   callbackVars, keyringVars, downgradeVars, keyringHist>>

SchedCheck1 ==
    ScheduledCheck("sc_check1", "sc_get_handle",
                   "Operation cancelled or timed out before starting")

\* let mut handle = get_handle()?;
SchedGetHandle ==
    /\ pc = "sc_get_handle"
    /\ \E ok \in BOOLEAN :
          IF ok
          THEN /\ handle' = TRUE
               /\ pc' = "sc_add_ignorepkg"
               /\ UNCHANGED ret
          ELSE /\ Return("Err")
               /\ UNCHANGED handle
    /\ UNCHANGED <<op, flagVars, cbs, trans, guard, initResult, releaseCalls,
                   commitCalls, inCall, cbFired, stream, localVars, schedVars,
                   questionVars, preflightVars, orphanVars, cacheVars,
                   returnVars, configVars, ignoredVars, callbackVars,
                   keyringVars, downgradeVars, keyringHist>>

\* one iteration of `for pkg_name in &ignored_packages`
SchedAddIgnorepkg ==
    /\ pc = "sc_add_ignorepkg"
    /\ ignoreLeft > 0
    /\ \E ok \in BOOLEAN :
          IF ok
          THEN /\ ignoreLeft' = ignoreLeft - 1
               /\ UNCHANGED <<pc, ret>>
          ELSE /\ Return("Err")
               /\ UNCHANGED ignoreLeft
    /\ UNCHANGED <<op, flagVars, engineVars, stream, orphansLeft, orphanCount,
                   staged, sampleVars, errVars, histVars, schedVars,
                   questionVars, preflightVars, orphanVars, cacheVars,
                   returnVars, configVars, ignoredVars, callbackVars,
                   keyringVars, downgradeVars, keyringHist>>

\* setup_log_cb(&mut handle); setup_dl_cb(&mut handle);
SchedSetupCallbacks ==
    /\ pc = "sc_add_ignorepkg"
    /\ ignoreLeft = 0
    /\ cbs' = ScheduledCallbacks
    /\ pc' = "sc_update"
    /\ UNCHANGED <<op, ret, flagVars, handle, trans, guard, initResult,
                   releaseCalls, commitCalls, inCall, cbFired, stream,
                   localVars, schedVars, questionVars, preflightVars,
                   orphanVars, cacheVars, returnVars, configVars, ignoredVars,
                   callbackVars, keyringVars, downgradeVars, keyringHist>>

\* handle.syncdbs_mut().update(false) is entered
SchedUpdateCall ==
    /\ pc = "sc_update"
    /\ inCall = "none"
    /\ inCall' = "update"
    /\ UNCHANGED <<op, pc, ret, flagVars, handle, cbs, trans, guard,
                   initResult, releaseCalls, commitCalls, cbFired, stream,
                   localVars, schedVars, questionVars, preflightVars,
                   orphanVars, cacheVars, returnVars, configVars, ignoredVars,
                   callbackVars, keyringVars, downgradeVars, keyringHist>>

\* if let Err(e) = handle.syncdbs_mut().update(false) { .. }
SchedUpdateReturn ==
    /\ pc = "sc_update"
    /\ inCall = "update"
    /\ inCall' = "none"
    /\ \E ok \in BOOLEAN :
          IF ok
          THEN /\ pc' = "sc_check2"
               /\ UNCHANGED <<ret, runLog>>
          ELSE log_run(LogEntry(FALSE, 0, 0, "Failed to sync databases: {}",
                                <<>>, "", <<>>), "Err")
    /\ UNCHANGED <<op, flagVars, handle, cbs, trans, guard, initResult,
                   releaseCalls, commitCalls, cbFired, stream, localVars,
                   config, packages_checked, packages_to_upgrade, qflags,
                   detected, questionVars, preflightVars, orphanVars,
                   cacheVars, returnVars, configVars, ignoredVars,
                   callbackVars, keyringVars, downgradeVars, keyringHist>>

SchedCheck2 ==
    ScheduledCheck("sc_check2", "sc_find_updates",
                   "Operation cancelled or timed out after database sync")

\* the safety limit taken one package too high
exceeds_max_packages_lax(checked, max_packages) ==
    max_packages > 0 /\ checked > max_packages + 1

\* max_packages > 0 && packages_checked > max_packages
exceeds_max_packages(checked, max_packages) ==
    max_packages > 0 /\ checked > max_packages

\* find_available_updates, then the three gates in front of the transaction,
\* then handle.set_question_cb
SchedFindUpdates ==
    /\ pc = "sc_find_updates"
    /\ \E n \in 0..MaxUpdates :
          /\ packages_checked' = n
          /\ IF n = 0
             THEN /\ log_run(LogEntry(TRUE, 0, 0, "None", <<>>,
                                      "No updates available", <<>>), "Ok")
                  /\ UNCHANGED cbs
             ELSE IF config.mode = "check"
             THEN /\ log_run(LogEntry(TRUE, n, 0, "None", <<>>, "updates",
                                      <<>>), "Ok")
                  /\ UNCHANGED cbs
             ELSE IF exceeds_max_packages(n, config.max_packages)
             THEN /\ log_run(LogEntry(TRUE, n, 0, "None", <<>>,
                         "Skipped: {} updates exceed safety limit of {}",
                         <<>>), "Ok")
                  /\ UNCHANGED cbs
             ELSE /\ cbs' = cbs \cup {"question"}
                  /\ pc' = "sc_trans_init"
                  /\ UNCHANGED <<ret, runLog>>
    /\ UNCHANGED <<op, flagVars, handle, trans, guard, initResult,
                   releaseCalls, commitCalls, inCall, cbFired, stream,
                   localVars, config, packages_to_upgrade, qflags, detected,
                   questionVars, preflightVars, orphanVars, cacheVars,
                   returnVars, configVars, ignoredVars, callbackVars,
                   keyringVars, downgradeVars, keyringHist>>

\* the flag the question callback of scheduled_run stores
ScheduledQuestionFlag(q) ==
    CASE q = "Conflict" -> {"conflicts"}
      [] q = "RemovePkgs" -> {"removals"}
      [] q = "ImportKey" -> {"import_keys"}
      [] q = "Replace" -> {"removals"}
      [] OTHER -> {}

\* question callback of scheduled_run
CbQuestionScheduled ==
    /\ CallbackRuns("question")
    /\ op = "scheduled_run"
    /\ inCall \in {"sync_sysupgrade", "trans_prepare", "trans_commit"}
    /\ \E q \in Questions : qflags' = qflags \cup ScheduledQuestionFlag(q)
    /\ UNCHANGED <<op, pc, ret, flagVars, handle, cbs, trans, guard,
                   initResult, releaseCalls, commitCalls, inCall, stream,
                   loopVars, sampleVars, errVars, prepareCheck, flagsAtCommit,
                   config, packages_checked, packages_to_upgrade, detected,
                   runLog, questionVars, preflightVars, orphanVars, cacheVars,
                   returnVars, configVars, ignoredVars, callbackVars,
                   keyringVars, downgradeVars, keyringHist>>

\* let mut tx = match TransactionGuard::new(..) { .. };
SchedTransInit ==
    /\ pc = "sc_trans_init"
    /\ \E ok \in BOOLEAN :
          /\ TransactionGuard_new(ok)
          /\ IF ok
             THEN /\ pc' = "sc_sync_sysupgrade"
                  /\ UNCHANGED <<ret, runLog>>
             ELSE log_run(LogEntry(FALSE, packages_checked, 0,
                              "Failed to initialize transaction: {}", <<>>,
                              "updates", <<>>), "Err")
    /\ UNCHANGED <<op, flagVars, handle, cbs, releaseCalls, commitCalls,
                   inCall, cbFired, stream, localVars, config,
                   packages_checked, packages_to_upgrade, qflags, detected,
                   questionVars, preflightVars, orphanVars, cacheVars,
                   returnVars, configVars, ignoredVars, callbackVars,
                   keyringVars, downgradeVars, keyringHist>>

\* tx.sync_sysupgrade(false) is entered
SchedStageCall ==
    /\ pc = "sc_sync_sysupgrade"
    /\ inCall = "none"
    /\ inCall' = "sync_sysupgrade"
    /\ UNCHANGED <<op, pc, ret, flagVars, handle, cbs, trans, guard,
                   initResult, releaseCalls, commitCalls, cbFired, stream,
                   localVars, schedVars, questionVars, preflightVars,
                   orphanVars, cacheVars, returnVars, configVars, ignoredVars,
                   callbackVars, keyringVars, downgradeVars, keyringHist>>

\* if let Err(e) = tx.sync_sysupgrade(false) { .. }, then the three loads
\* of the question flags
SchedStageReturn ==
    /\ pc = "sc_sync_sysupgrade"
    /\ inCall = "sync_sysupgrade"
    /\ inCall' = "none"
    /\ \E ok \in BOOLEAN :
          IF ok
          THEN /\ detected' = qflags
               /\ pc' = "sc_prepare"
               /\ UNCHANGED <<ret, runLog>>
          ELSE /\ log_run(LogEntry(FALSE, packages_checked, 0,
                              "Failed to prepare upgrade: {}", <<>>,
                              "updates", <<>>), "Err")
               /\ UNCHANGED detected
    /\ UNCHANGED <<op, flagVars, handle, cbs, trans, guard, initResult,
                   releaseCalls, commitCalls, cbFired, stream, localVars,
                   config, packages_checked, packages_to_upgrade, qflags,
                   questionVars, preflightVars, orphanVars, cacheVars,
                   returnVars, configVars, ignoredVars, callbackVars,
                   keyringVars, downgradeVars, keyringHist>>

\* tx.prepare() is entered
SchedPrepareCall ==
    /\ pc = "sc_prepare"
    /\ inCall = "none"
    /\ inCall' = "trans_prepare"
    /\ UNCHANGED <<op, pc, ret, flagVars, handle, cbs, trans, guard,
                   initResult, releaseCalls, commitCalls, cbFired, stream,
                   localVars, schedVars, questionVars, preflightVars,
                   orphanVars, cacheVars, returnVars, configVars, ignoredVars,
                   callbackVars, keyringVars, downgradeVars, keyringHist>>

\* reasons, in the order scheduled_run pushes them
ScheduledReasons(d) ==
    (IF "conflicts" \in d THEN <<"conflicts detected">> ELSE <<>>)
    \o (IF "removals" \in d THEN <<"package removals required">> ELSE <<>>)
    \o (IF "import_keys" \in d THEN <<"key imports required">> ELSE <<>>)

\* if tx.prepare().is_err() || conflicts_detected || .. { .. }, then
\* packages_to_upgrade = tx.add().len() and its zero test
SchedPrepareReturn ==
    /\ pc = "sc_prepare"
    /\ inCall = "trans_prepare"
    /\ inCall' = "none"
    /\ \E ok \in BOOLEAN, k \in 0..MaxUpdates :
          IF ~ok \/ detected /= {}
          THEN /\ log_run(LogEntry(TRUE, packages_checked, 0, "None", <<>>,
                         "Skipped: manual intervention required ({})",
                         ScheduledReasons(detected)), "Ok")
               /\ UNCHANGED packages_to_upgrade
          ELSE /\ packages_to_upgrade' = k
               /\ IF k = 0
                  THEN log_run(LogEntry(TRUE, packages_checked, 0, "None",
                           <<>>, "No packages to upgrade after preparation",
                           <<>>), "Ok")
                  ELSE /\ pc' = "sc_check3"
                       /\ UNCHANGED <<ret, runLog>>
    /\ UNCHANGED <<op, flagVars, handle, cbs, trans, guard, initResult,
                   releaseCalls, commitCalls, cbFired, stream, localVars,
                   config, packages_checked, qflags, detected, questionVars,
                   preflightVars, orphanVars, cacheVars, returnVars,
                   configVars, ignoredVars, callbackVars, keyringVars,
                   downgradeVars, keyringHist>>

SchedCheck3 ==
    ScheduledCheck("sc_check3", "sc_commit",
                   "Operation cancelled or timed out before commit")

\* tx.commit() is entered
SchedCommitCall ==
    /\ pc = "sc_commit"
    /\ inCall = "none"
    /\ inCall' = "trans_commit"
    /\ commitCalls' = commitCalls + 1
    /\ flagsAtCommit' = FlagsNow
    /\ UNCHANGED <<op, pc, ret, flagVars, handle, cbs, trans, guard,
                   initResult, releaseCalls, cbFired, stream, loopVars,
                   sampleVars, errVars, prepareCheck, commitReads, schedVars,
                   questionVars, preflightVars, orphanVars, cacheVars,
                   returnVars, configVars, ignoredVars, callbackVars,
                   keyringVars, downgradeVars, keyringHist>>

\* the entry scheduled_run logs for a failed commit
ScheduledCommitFailure(e) ==
    LogEntry(FALSE, packages_checked, 0, "Failed to commit upgrade: {}", e,
             "updates", <<>>)

\* if let Err(e) = tx.commit() { .. }, then the entry of a successful run
SchedCommitReturn ==
    /\ pc = "sc_commit"
    /\ inCall = "trans_commit"
    /\ inCall' = "none"
    /\ \E e \in {NoError} \cup ErrTexts :
          /\ commit_err' = e
          /\ IF e /= NoError
             THEN log_run(ScheduledCommitFailure(e), "Err")
             ELSE log_run(LogEntry(TRUE, packages_checked,
                              packages_to_upgrade, "None", <<>>, "updates",
                              <<>>), "Ok")
    /\ UNCHANGED <<op, flagVars, handle, cbs, trans, guard, initResult,
                   releaseCalls, commitCalls, cbFired, stream, loopVars,
                   sampleVars, interrupted_message, histVars, config,
                   packages_checked, packages_to_upgrade, qflags, detected,
                   questionVars, preflightVars, orphanVars, cacheVars,
                   returnVars, configVars, ignoredVars, callbackVars,
                   keyringVars, downgradeVars, keyringHist>>

scheduled_run ==
    \/ SchedStart
    \/ SchedCheck1
    \/ SchedGetHandle
    \/ SchedAddIgnorepkg
    \/ SchedSetupCallbacks
    \/ SchedUpdateCall
    \/ SchedUpdateReturn
    \/ SchedCheck2
    \/ SchedFindUpdates
    \/ CbQuestionScheduled
    \/ SchedTransInit
    \/ SchedStageCall
    \/ SchedStageReturn
    \/ SchedPrepareCall
    \/ SchedPrepareReturn
    \/ SchedCheck3
    \/ SchedCommitCall
    \/ SchedCommitReturn

\* ------------------------------------------------------------------------
\* handlers/keyring.rs: refresh_keyring and init_keyring.  The pacman_key
\* library is an environment: each of its operations ends with Ok, with
\* Error::Cancelled (only for a cancelled token), with Error::Timeout or
\* with another error, and refresh_keys reports its progress meanwhile.
\* ------------------------------------------------------------------------
KeyringDrivers ==
    {"refresh_keyring", "init_keyring"}

KeyringCalls ==
    {"refresh_keys", "init_keyring_with_options", "populate_with_options"}

KeyringResults ==
    {"Ok", "Cancelled", "Timeout", "Error"}

\* variant: the supervisor cancels the token at its first poll
supervisor_cancels_always ==
    TRUE

\* if is_cancelled() { cancel_token_clone.cancel(); break; }
supervisor_cancels ==
    is_cancelled

\* setup_signal_handler(); of refresh_keyring and init_keyring
KeyringStart ==
    /\ op \in KeyringDrivers
    /\ pc = "start"
    /\ setup_signal_handler
    /\ pc' = "kr_check"
    /\ UNCHANGED <<op, ret, elapsed, timeout_secs, engineVars, stream,
                   localVars, schedVars, questionVars, preflightVars,
                   orphanVars, cacheVars, returnVars, configVars, ignoredVars,
                   callbackVars, keyringVars, downgradeVars, keyringHist>>

\* if is_cancelled() { emit Complete; return Ok(()) }
KeyringCheck ==
    /\ pc = "kr_check"
    /\ IF is_cancelled
       THEN /\ emit_event(Complete(FALSE, "Operation cancelled", <<>>))
            /\ Return("Ok")
       ELSE /\ pc' = "kr_runtime"
            /\ UNCHANGED <<ret, stream>>
    /\ UNCHANGED <<op, flagVars, engineVars, localVars, schedVars,
                   questionVars, preflightVars, orphanVars, cacheVars,
                   returnVars, configVars, ignoredVars, callbackVars,
                   keyringVars, downgradeVars, keyringHist>>

\* the first library call of each driver
KeyringFirstCall ==
    IF op = "refresh_keyring" THEN "refresh_keys"
    ELSE "init_keyring_with_options"

\* Runtime::new()?, the first Log record, the token, the supervisor spawned
\* on the runtime, and the first library operation awaited
KeyringBlockOn ==
    /\ pc = "kr_runtime"
    /\ \E ok \in BOOLEAN :
          IF ok
          THEN /\ emit_event(Record("log", FALSE,
                      IF op = "refresh_keyring"
                      THEN "Refreshing pacman keyring..."
                      ELSE "Initializing pacman keyring...", <<>>))
               /\ token' = FALSE
               /\ sup' = "sleep"
               /\ inCall' = KeyringFirstCall
               /\ pc' = "kr_await"
               /\ UNCHANGED ret
          ELSE /\ Return("Err")
               /\ UNCHANGED <<inCall, stream, keyringVars>>
    /\ UNCHANGED <<op, flagVars, handle, cbs, trans, guard, initResult,
                   releaseCalls, commitCalls, cbFired, localVars, schedVars,
                   questionVars, preflightVars, orphanVars, cacheVars,
                   returnVars, configVars, ignoredVars, callbackVars,
                   downgradeVars, keyringHist>>

\* the supervisor task wakes from its 100ms sleep and tests the flag; the
\* task lives as long as the runtime
SupervisorPoll ==
    /\ sup = "sleep"
    /\ IF supervisor_cancels
       THEN /\ token' = TRUE
            /\ sup' = "exited"
       ELSE UNCHANGED <<keyringVars>>
    /\ UNCHANGED <<op, pc, ret, flagVars, engineVars, stream, localVars,
                   schedVars, questionVars, preflightVars, orphanVars,
                   cacheVars, returnVars, configVars, ignoredVars,
                   callbackVars, downgradeVars, keyringHist>>

\* the callback of refresh_keys: one Log record for each RefreshProgress
RefreshProgress ==
    /\ inCall = "refresh_keys"
    /\ cbFired < MaxCallbacks
    /\ cbFired' = cbFired + 1
    /\ \E text \in {"Starting refresh of {} keys", "Refreshing key {}/{}: {}",
                    "Key refresh completed", "Error refreshing key {}: {}"} :
          emit_event(Record("log", FALSE, text, <<>>))
    /\ UNCHANGED <<op, pc, ret, flagVars, handle, cbs, trans, guard,
                   initResult, releaseCalls, commitCalls, inCall, localVars,
                   schedVars, questionVars, preflightVars, orphanVars,
                   cacheVars, returnVars, configVars, ignoredVars,
                   callbackVars, keyringVars, downgradeVars, keyringHist>>

\* the Complete record each match arm writes for the result of a call
KeyringComplete(call, res) ==
    CASE res = "Cancelled" ->
            Complete(FALSE, "Operation cancelled by user", <<>>)
      [] res = "Ok" /\ call = "refresh_keys" ->
            Complete(TRUE, "Keyring refresh completed", <<>>)
      [] res = "Ok" /\ call = "populate_with_options" ->
            Complete(TRUE, "Keyring initialized and populated", <<>>)
      [] res = "Timeout" /\ call = "refresh_keys" ->
            Complete(FALSE, "Operation timed out after {} seconds", <<>>)
      [] res = "Timeout" /\ call = "init_keyring_with_options" ->
            Complete(FALSE, "Init timed out after {} seconds", <<>>)
      [] res = "Timeout" /\ call = "populate_with_options" ->
            Complete(FALSE, "Populate timed out after {} seconds", <<>>)
      [] res = "Error" /\ call = "refresh_keys" ->
            Complete(FALSE, "Keyring refresh failed: {}", <<>>)
      [] res = "Error" /\ call = "init_keyring_with_options" ->
            Complete(FALSE, "Failed to initialize keyring: {}", <<>>)
      [] res = "Error" /\ call = "populate_with_options" ->
            Complete(FALSE, "Failed to populate keyring: {}", <<>>)

\* a library operation ends; block_on returns with the last one and the
\* runtime is dropped with the supervisor still asleep on it
KeyringReturn ==
    /\ pc = "kr_await"
    /\ inCall \in KeyringCalls
    /\ \E res \in KeyringResults :
          /\ res = "Cancelled" => token
          /\ IF inCall = "init_keyring_with_options" /\ res = "Ok"
             THEN /\ emit_event(Record("log", FALSE,
                         "Populating keyring with Arch Linux keys...", <<>>))
                  /\ inCall' = "populate_with_options"
                  /\ UNCHANGED <<pc, ret, sup>>
             ELSE /\ emit_event(KeyringComplete(inCall, res))
                  /\ inCall' = "none"
                  /\ sup' = IF sup = "sleep" THEN "dropped" ELSE sup
                  /\ Return("Ok")
    /\ UNCHANGED <<op, flagVars, handle, cbs, trans, guard, initResult,
                   releaseCalls, commitCalls, cbFired, localVars, schedVars,
                   questionVars, preflightVars, orphanVars, cacheVars,
                   returnVars, configVars, ignoredVars, callbackVars, token,
                   downgradeVars, keyringHist>>

\* the ctrlc handler, with a note of the library operation it interrupts
KeyringSignal ==
    /\ op \in KeyringDrivers
    /\ Running
    /\ ~cancelled
    /\ cancelled' = TRUE
    /\ signalled_in' = inCall
    /\ UNCHANGED <<op, pc, ret, elapsed, timeout_secs, engineVars, stream,
                   localVars, schedVars, questionVars, preflightVars,
                   orphanVars, cacheVars, returnVars, configVars, ignoredVars,
                   callbackVars, keyringVars, downgradeVars>>

keyring ==
    \/ KeyringStart
    \/ KeyringCheck
    \/ KeyringBlockOn
    \/ RefreshProgress
    \/ KeyringReturn

\* ------------------------------------------------------------------------
\* handlers/downgrade.rs: downgrade_package.  The pacman child process is
\* an environment: it writes lines to its two pipes while it runs and exits
\* when it chooses; a pipe is at end of file once the child is gone and the
\* lines it wrote have been read.
\* ------------------------------------------------------------------------
Pipes ==
    {"stdout", "stderr"}

\* variant: the deadline counts as expired when the timeout is reached
deadline_expired_inclusive ==
    elapsed >= timeout_secs

\* start_time.elapsed() > timeout_duration
deadline_expired ==
    elapsed > timeout_secs

\* let _ = child.kill();
child_kill ==
    /\ kills' = kills + 1
    /\ child' = IF child = "running" THEN "killed" ELSE child

\* setup_signal_handler(), the two validations and find_package_file
DowngradeStart ==
    /\ op = "downgrade"
    /\ pc = "start"
    /\ setup_signal_handler
    /\ \E found \in BOOLEAN :
          IF found
          THEN /\ pc' = "dg_spawn"
               /\ UNCHANGED ret
          ELSE Return("Err")
    /\ UNCHANGED <<op, elapsed, timeout_secs, engineVars, stream, localVars,
                   schedVars, questionVars, preflightVars, orphanVars,
                   cacheVars, returnVars, configVars, ignoredVars,
                   callbackVars, keyringVars, downgradeVars, keyringHist>>

\* the Event and the Log record, Command::spawn()?, and the two threads that
\* drain the pipes of the child
DowngradeSpawn ==
    /\ pc = "dg_spawn"
    /\ stream' = stream \o
          <<Record("event", FALSE, "Downgrading {} to version {}", <<>>),
            Record("log", FALSE, "Running: pacman -U --noconfirm {}", <<>>)>>
    /\ \E spawned \in BOOLEAN :
          IF spawned
          THEN /\ child' = "running"
               /\ readers' = [s \in Pipes |-> "reading"]
               /\ pc' = "dg_poll"
               /\ UNCHANGED ret
          ELSE /\ Return("Err")
               /\ UNCHANGED <<child, readers>>
    /\ UNCHANGED <<op, flagVars, engineVars, localVars, schedVars,
                   questionVars, preflightVars, orphanVars, cacheVars,
                   returnVars, configVars, ignoredVars, callbackVars,
                   keyringVars, status, pipes, lines_out, kills, keyringHist>>

\* the child writes a line to one of its pipes
ChildWrites ==
    /\ child = "running"
    /\ \E s \in Pipes :
          /\ lines_out[s] < MaxLines
          /\ lines_out' = [lines_out EXCEPT ![s] = @ + 1]
          /\ pipes' = [pipes EXCEPT ![s] = @ + 1]
    /\ UNCHANGED <<op, pc, ret, flagVars, engineVars, stream, localVars,
                   schedVars, questionVars, preflightVars, orphanVars,
                   cacheVars, returnVars, configVars, ignoredVars,
                   callbackVars, keyringVars, child, status, readers, kills,
                   keyringHist>>

\* the child exits on its own
ChildExits ==
    /\ child = "running"
    /\ child' = "exited"
    /\ UNCHANGED <<op, pc, ret, flagVars, engineVars, stream, localVars,
                   schedVars, questionVars, preflightVars, orphanVars,
                   cacheVars, returnVars, configVars, ignoredVars,
                   callbackVars, keyringVars, status, pipes, lines_out,
                   readers, kills, keyringHist>>

\* one iteration of `for line_result in reader.lines()` of a draining
\* thread: a line that is not blank becomes a Log record; the threads run
\* until the process exits
ReaderLine(s) ==
    /\ pc /= "done"
    /\ readers[s] = "reading"
    /\ pipes[s] > 0
    /\ pipes' = [pipes EXCEPT ![s] = @ - 1]
    /\ \E blank \in BOOLEAN :
          IF blank
          THEN UNCHANGED stream
          ELSE emit_event(Record("log", FALSE,
                   IF s = "stdout" THEN "info" ELSE "warning", <<>>))
    /\ UNCHANGED <<op, pc, ret, flagVars, engineVars, localVars, schedVars,
                   questionVars, preflightVars, orphanVars, cacheVars,
                   returnVars, configVars, ignoredVars, callbackVars,
                   keyringVars, child, status, lines_out, readers, kills,
                   keyringHist>>

\* reader.lines() ends at end of file and the thread finishes
ReaderEnds(s) ==
    /\ pc /= "done"
    /\ readers[s] = "reading"
    /\ pipes[s] = 0
    /\ child \in {"exited", "killed"}
    /\ readers' = [readers EXCEPT ![s] = "ended"]
    /\ UNCHANGED <<op, pc, ret, flagVars, engineVars, stream, localVars,
                   schedVars, questionVars, preflightVars, orphanVars,
                   cacheVars, returnVars, configVars, ignoredVars,
                   callbackVars, keyringVars, child, status, pipes, lines_out,
                   kills, keyringHist>>

\* the head of the poll loop: the flag, then the deadline
DowngradePoll ==
    /\ pc = "dg_poll"
    /\ IF is_cancelled
       THEN /\ child_kill
            /\ emit_event(Complete(FALSE, "Operation cancelled by user",
                   <<>>))
            /\ Return("Ok")
       ELSE IF deadline_expired
       THEN /\ child_kill
            /\ emit_event(Complete(FALSE,
                   "Operation timed out after {} seconds", <<timeout_secs>>))
            /\ Return("Ok")
       ELSE /\ pc' = "dg_try_wait"
            /\ UNCHANGED <<ret, stream, child, kills>>
    /\ UNCHANGED <<op, flagVars, engineVars, localVars, schedVars,
                   questionVars, preflightVars, orphanVars, cacheVars,
                   returnVars, configVars, ignoredVars, callbackVars,
                   keyringVars, status, pipes, lines_out, readers,
                   keyringHist>>

\* match child.try_wait()
DowngradeTryWait ==
    /\ pc = "dg_try_wait"
    /\ \/ /\ child = "running"
          /\ pc' = "dg_sleep"
          /\ UNCHANGED <<ret, stream, status>>
       \/ /\ child = "exited"
          /\ \E success \in BOOLEAN : status' = success
          /\ pc' = "dg_join"
          /\ UNCHANGED <<ret, stream>>
       \/ /\ emit_event(Complete(FALSE,
                 "Failed to check process status: {}", <<>>))
          /\ Return("Err")
          /\ UNCHANGED status
    /\ UNCHANGED <<op, flagVars, engineVars, localVars, schedVars,
                   questionVars, preflightVars, orphanVars, cacheVars,
                   returnVars, configVars, ignoredVars, callbackVars,
                   keyringVars, child, pipes, lines_out, readers, kills,
                   keyringHist>>

\* std::thread::sleep(Duration::from_millis(100))
DowngradeSleep ==
    /\ pc = "dg_sleep"
    /\ pc' = "dg_poll"
    /\ UNCHANGED <<op, ret, flagVars, engineVars, stream, localVars, schedVars,
                   questionVars, preflightVars, orphanVars, cacheVars,
                   returnVars, configVars, ignoredVars, callbackVars,
                   keyringVars, downgradeVars, keyringHist>>

\* the two join() calls, then the Complete record for the exit status
DowngradeJoin ==
    /\ pc = "dg_join"
    /\ \A s \in Pipes : readers[s] = "ended"
    /\ emit_event(IF status
                  THEN Complete(TRUE, "Successfully downgraded {} to {}",
                           <<>>)
                  ELSE Complete(FALSE, "Failed to downgrade {}: exit code {}",
                           <<>>))
    /\ Return("Ok")
    /\ UNCHANGED <<op, flagVars, engineVars, localVars, schedVars,
                   questionVars, preflightVars, orphanVars, cacheVars,
                   returnVars, configVars, ignoredVars, callbackVars,
                   keyringVars, downgradeVars, keyringHist>>

downgrade_package ==
    \/ DowngradeStart
    \/ DowngradeSpawn
    \/ DowngradePoll
    \/ DowngradeTryWait
    \/ DowngradeSleep
    \/ DowngradeJoin

child_process ==
    \/ ChildWrites
    \/ ChildExits

draining_threads ==
    \E s \in Pipes : ReaderLine(s) \/ ReaderEnds(s)

\* ------------------------------------------------------------------------
\* Initial states
\* ------------------------------------------------------------------------
InitDriver ==
    /\ op \in Drivers
    /\ pc = "start"
    /\ ret = "none"
    /\ cancelled \in BOOLEAN
    /\ elapsed = 0
    /\ timeout_secs \in 0..MaxTimeout
    /\ handle = FALSE
    /\ cbs = {}
    /\ trans = "none"
    /\ guard = FALSE
    /\ initResult = "none"
    /\ releaseCalls = 0
    /\ commitCalls = 0
    /\ inCall = "none"
    /\ cbFired = 0
    /\ stream = <<>>
    /\ ignoreLeft \in IF op = "upgrade" THEN 0..MaxIgnore ELSE {0}
    /\ orphansLeft = 0
    /\ orphanCount = 0
    /\ was_cancelled_before = FALSE
    /\ was_timed_out_before = FALSE
    /\ commit_err = NoError
    /\ interrupted_message = "Operation interrupted"
    /\ prepareCheck = "none"
    /\ commitReads = {}
    /\ flagsAtCommit = [cancelled |-> FALSE, timed_out |-> FALSE]
    /\ config = [enabled |-> FALSE, mode |-> "upgrade", max_packages |-> 0]
    /\ packages_checked = 0
    /\ packages_to_upgrade = 0
    /\ qflags = {}
    /\ detected = {}
    /\ runLog = <<>>
    /\ asked = <<>>
    /\ plan = NoPlan
    /\ ignore_pkgs = 0
    /\ state = PreflightState_default
    /\ response = <<>>
    /\ run = 1
    /\ script = <<>>
    /\ results = <<>>
    /\ staged = 0
    /\ localdb = <<>>
    /\ orphans = NoQuery
    /\ orphan_names = NoQuery
    /\ REPO_MAP_CACHE = NoMap
    /\ syncdbs = 0
    /\ repo_map = NoRepoMap
    /\ init_error = NoError
    /\ config_file = "old"
    /\ config_locks = {}
    /\ config_pc = <<>>
    /\ content = <<>>
    /\ ignored_packages = <<>>
    /\ last_call = NoCall
    /\ in_cb = "none"
    /\ token = FALSE
    /\ sup = "none"
    /\ child = "none"
    /\ status = FALSE
    /\ pipes = [s \in Pipes |-> 0]
    /\ lines_out = [s \in Pipes |-> 0]
    /\ readers = [s \in Pipes |-> "none"]
    /\ kills = 0
    /\ signalled_in = "none"

\* the arguments and the flag state of a direct call of handle_commit_error
InitClassify ==
    /\ op = "handle_commit_error"
    /\ pc = "start"
    /\ ret = "none"
    /\ cancelled \in BOOLEAN
    /\ elapsed \in 0..MaxElapsed
    /\ timeout_secs \in 0..MaxTimeout
    /\ handle = FALSE
    /\ cbs = {}
    /\ trans = "none"
    /\ guard = FALSE
    /\ initResult = "none"
    /\ releaseCalls = 0
    /\ commitCalls = 0
    /\ inCall = "none"
    /\ cbFired = 0
    /\ stream = <<>>
    /\ ignoreLeft = 0
    /\ orphansLeft = 0
    /\ orphanCount = 0
    /\ was_cancelled_before \in BOOLEAN
    /\ was_timed_out_before \in BOOLEAN
    /\ commit_err \in ErrTexts
    /\ interrupted_message \in InterruptedMessages
    /\ prepareCheck = "none"
    /\ commitReads = {}
    /\ flagsAtCommit = [cancelled |-> FALSE, timed_out |-> FALSE]
    /\ config = [enabled |-> FALSE, mode |-> "upgrade", max_packages |-> 0]
    /\ packages_checked = 0
    /\ packages_to_upgrade = 0
    /\ qflags = {}
    /\ detected = {}
    /\ runLog = <<>>
    /\ asked = <<>>
    /\ plan = NoPlan
    /\ ignore_pkgs = 0
    /\ state = PreflightState_default
    /\ response = <<>>
    /\ run = 1
    /\ script = <<>>
    /\ results = <<>>
    /\ staged = 0
    /\ localdb = <<>>
    /\ orphans = NoQuery
    /\ orphan_names = NoQuery
    /\ REPO_MAP_CACHE = NoMap
    /\ syncdbs = 0
    /\ repo_map = NoRepoMap
    /\ init_error = NoError
    /\ config_file = "old"
    /\ config_locks = {}
    /\ config_pc = <<>>
    /\ content = <<>>
    /\ ignored_packages = <<>>
    /\ last_call = NoCall
    /\ in_cb = "none"
    /\ token = FALSE
    /\ sup = "none"
    /\ child = "none"
    /\ status = FALSE
    /\ pipes = [s \in Pipes |-> 0]
    /\ lines_out = [s \in Pipes |-> 0]
    /\ readers = [s \in Pipes |-> "none"]
    /\ kills = 0
    /\ signalled_in = "none"

\* scheduled_run under the persisted configuration it loads
InitScheduled ==
    /\ op = "scheduled_run"
    /\ pc = "start"
    /\ ret = "none"
    /\ cancelled \in BOOLEAN
    /\ elapsed = 0
    /\ timeout_secs \in 1..MaxTimeout
    /\ handle = FALSE
    /\ cbs = {}
    /\ trans = "none"
    /\ guard = FALSE
    /\ initResult = "none"
    /\ releaseCalls = 0
    /\ commitCalls = 0
    /\ inCall = "none"
    /\ cbFired = 0
    /\ stream = <<>>
    /\ ignoreLeft \in 0..MaxIgnore
    /\ orphansLeft = 0
    /\ orphanCount = 0
    /\ was_cancelled_before = FALSE
    /\ was_timed_out_before = FALSE
    /\ commit_err = NoError
    /\ interrupted_message = "Operation interrupted"
    /\ prepareCheck = "none"
    /\ commitReads = {}
    /\ flagsAtCommit = [cancelled |-> FALSE, timed_out |-> FALSE]
    /\ config \in [enabled : BOOLEAN, mode : ScheduleModes,
                   max_packages : 0..MaxPackagesCap]
    /\ packages_checked = 0
    /\ packages_to_upgrade = 0
    /\ qflags = {}
    /\ detected = {}
    /\ runLog = <<>>
    /\ asked = <<>>
    /\ plan = NoPlan
    /\ ignore_pkgs = 0
    /\ state = PreflightState_default
    /\ response = <<>>
    /\ run = 1
    /\ script = <<>>
    /\ results = <<>>
    /\ staged = 0
    /\ localdb = <<>>
    /\ orphans = NoQuery
    /\ orphan_names = NoQuery
    /\ REPO_MAP_CACHE = NoMap
    /\ syncdbs = 0
    /\ repo_map = NoRepoMap
    /\ init_error = NoError
    /\ config_file = "old"
    /\ config_locks = {}
    /\ config_pc = <<>>
    /\ content = <<>>
    /\ ignored_packages = <<>>
    /\ last_call = NoCall
    /\ in_cb = "none"
    /\ token = FALSE
    /\ sup = "none"
    /\ child = "none"
    /\ status = FALSE
    /\ pipes = [s \in Pipes |-> 0]
    /\ lines_out = [s \in Pipes |-> 0]
    /\ readers = [s \in Pipes |-> "none"]
    /\ kills = 0
    /\ signalled_in = "none"

\* preflight_upgrade installs no signal handler and has no deadline; it is
\* handed an ignore list of MaxIgnore entries
InitPreflight ==
    /\ op = "preflight"
    /\ pc = "start"
    /\ ret = "none"
    /\ cancelled = FALSE
    /\ elapsed = 0
    /\ timeout_secs = 1
    /\ handle = FALSE
    /\ cbs = {}
    /\ trans = "none"
    /\ guard = FALSE
    /\ initResult = "none"
    /\ releaseCalls = 0
    /\ commitCalls = 0
    /\ inCall = "none"
    /\ cbFired = 0
    /\ stream = <<>>
    /\ ignoreLeft = MaxIgnore
    /\ orphansLeft = 0
    /\ orphanCount = 0
    /\ was_cancelled_before = FALSE
    /\ was_timed_out_before = FALSE
    /\ commit_err = NoError
    /\ interrupted_message = "Operation interrupted"
    /\ prepareCheck = "none"
    /\ commitReads = {}
    /\ flagsAtCommit = [cancelled |-> FALSE, timed_out |-> FALSE]
    /\ config = [enabled |-> FALSE, mode |-> "upgrade", max_packages |-> 0]
    /\ packages_checked = 0
    /\ packages_to_upgrade = 0
    /\ qflags = {}
    /\ detected = {}
    /\ runLog = <<>>
    /\ asked = <<>>
    /\ plan = NoPlan
    /\ ignore_pkgs = ignoreLeft
    /\ state = PreflightState_default
    /\ response = <<>>
    /\ run = 1
    /\ script = <<>>
    /\ results = <<>>
    /\ staged = 0
    /\ localdb = <<>>
    /\ orphans = NoQuery
    /\ orphan_names = NoQuery
    /\ REPO_MAP_CACHE = NoMap
    /\ syncdbs = 0
    /\ repo_map = NoRepoMap
    /\ init_error = NoError
    /\ config_file = "old"
    /\ config_locks = {}
    /\ config_pc = <<>>
    /\ content = <<>>
    /\ ignored_packages = <<>>
    /\ last_call = NoCall
    /\ in_cb = "none"
    /\ token = FALSE
    /\ sup = "none"
    /\ child = "none"
    /\ status = FALSE
    /\ pipes = [s \in Pipes |-> 0]
    /\ lines_out = [s \in Pipes |-> 0]
    /\ readers = [s \in Pipes |-> "none"]
    /\ kills = 0
    /\ signalled_in = "none"

\* the two orphan queries over one local database of MaxLocalPkgs packages
InitOrphans ==
    /\ op = "orphans"
    /\ pc = "start"
    /\ ret = "none"
    /\ cancelled = FALSE
    /\ elapsed = 0
    /\ timeout_secs = 1
    /\ handle = FALSE
    /\ cbs = {}
    /\ trans = "none"
    /\ guard = FALSE
    /\ initResult = "none"
    /\ releaseCalls = 0
    /\ commitCalls = 0
    /\ inCall = "none"
    /\ cbFired = 0
    /\ stream = <<>>
    /\ ignoreLeft = 0
    /\ orphansLeft = 0
    /\ orphanCount = 0
    /\ was_cancelled_before = FALSE
    /\ was_timed_out_before = FALSE
    /\ commit_err = NoError
    /\ interrupted_message = "Operation interrupted"
    /\ prepareCheck = "none"
    /\ commitReads = {}
    /\ flagsAtCommit = [cancelled |-> FALSE, timed_out |-> FALSE]
    /\ config = [enabled |-> FALSE, mode |-> "upgrade", max_packages |-> 0]
    /\ packages_checked = 0
    /\ packages_to_upgrade = 0
    /\ qflags = {}
    /\ detected = {}
    /\ runLog = <<>>
    /\ asked = <<>>
    /\ plan = NoPlan
    /\ ignore_pkgs = 0
    /\ state = PreflightState_default
    /\ response = <<>>
    /\ run = 1
    /\ script = <<>>
    /\ results = <<>>
    /\ staged = 0
    /\ localdb \in [PackageNames -> Packages]
    /\ orphans = NoQuery
    /\ orphan_names = NoQuery
    /\ REPO_MAP_CACHE = NoMap
    /\ syncdbs = 0
    /\ repo_map = NoRepoMap
    /\ init_error = NoError
    /\ config_file = "old"
    /\ config_locks = {}
    /\ config_pc = <<>>
    /\ content = <<>>
    /\ ignored_packages = <<>>
    /\ last_call = NoCall
    /\ in_cb = "none"
    /\ token = FALSE
    /\ sup = "none"
    /\ child = "none"
    /\ status = FALSE
    /\ pipes = [s \in Pipes |-> 0]
    /\ lines_out = [s \in Pipes |-> 0]
    /\ readers = [s \in Pipes |-> "none"]
    /\ kills = 0
    /\ signalled_in = "none"

\* one process that syncs the databases and looks repositories up, with
\* nothing cached yet
InitCache ==
    /\ op = "cache"
    /\ pc = "start"
    /\ ret = "none"
    /\ cancelled = FALSE
    /\ elapsed = 0
    /\ timeout_secs = 1
    /\ handle = FALSE
    /\ cbs = {}
    /\ trans = "none"
    /\ guard = FALSE
    /\ initResult = "none"
    /\ releaseCalls = 0
    /\ commitCalls = 0
    /\ inCall = "none"
    /\ cbFired = 0
    /\ stream = <<>>
    /\ ignoreLeft = 0
    /\ orphansLeft = 0
    /\ orphanCount = 0
    /\ was_cancelled_before = FALSE
    /\ was_timed_out_before = FALSE
    /\ commit_err = NoError
    /\ interrupted_message = "Operation interrupted"
    /\ prepareCheck = "none"
    /\ commitReads = {}
    /\ flagsAtCommit = [cancelled |-> FALSE, timed_out |-> FALSE]
    /\ config = [enabled |-> FALSE, mode |-> "upgrade", max_packages |-> 0]
    /\ packages_checked = 0
    /\ packages_to_upgrade = 0
    /\ qflags = {}
    /\ detected = {}
    /\ runLog = <<>>
    /\ asked = <<>>
    /\ plan = NoPlan
    /\ ignore_pkgs = 0
    /\ state = PreflightState_default
    /\ response = <<>>
    /\ run = 1
    /\ script = <<>>
    /\ results = <<>>
    /\ staged = 0
    /\ localdb = <<>>
    /\ orphans = NoQuery
    /\ orphan_names = NoQuery
    /\ REPO_MAP_CACHE = NoMap
    /\ syncdbs = 0
    /\ repo_map = NoRepoMap
    /\ init_error = NoError
    /\ config_file = "old"
    /\ config_locks = {}
    /\ config_pc = <<>>
    /\ content = <<>>
    /\ ignored_packages = <<>>
    /\ last_call = NoCall
    /\ in_cb = "none"
    /\ token = FALSE
    /\ sup = "none"
    /\ child = "none"
    /\ status = FALSE
    /\ pipes = [s \in Pipes |-> 0]
    /\ lines_out = [s \in Pipes |-> 0]
    /\ readers = [s \in Pipes |-> "none"]
    /\ kills = 0
    /\ signalled_in = "none"

\* one process about to save and MaxLoads processes about to load, with
\* the previous configuration in the file and no lock held
InitConfig ==
    /\ op = "config"
    /\ pc = "start"
    /\ ret = "none"
    /\ cancelled = FALSE
    /\ elapsed = 0
    /\ timeout_secs = 1
    /\ handle = FALSE
    /\ cbs = {}
    /\ trans = "none"
    /\ guard = FALSE
    /\ initResult = "none"
    /\ releaseCalls = 0
    /\ commitCalls = 0
    /\ inCall = "none"
    /\ cbFired = 0
    /\ stream = <<>>
    /\ ignoreLeft = 0
    /\ orphansLeft = 0
    /\ orphanCount = 0
    /\ was_cancelled_before = FALSE
    /\ was_timed_out_before = FALSE
    /\ commit_err = NoError
    /\ interrupted_message = "Operation interrupted"
    /\ prepareCheck = "none"
    /\ commitReads = {}
    /\ flagsAtCommit = [cancelled |-> FALSE, timed_out |-> FALSE]
    /\ config = [enabled |-> FALSE, mode |-> "upgrade", max_packages |-> 0]
    /\ packages_checked = 0
    /\ packages_to_upgrade = 0
    /\ qflags = {}
    /\ detected = {}
    /\ runLog = <<>>
    /\ asked = <<>>
    /\ plan = NoPlan
    /\ ignore_pkgs = 0
    /\ state = PreflightState_default
    /\ response = <<>>
    /\ run = 1
    /\ script = <<>>
    /\ results = <<>>
    /\ staged = 0
    /\ localdb = <<>>
    /\ orphans = NoQuery
    /\ orphan_names = NoQuery
    /\ REPO_MAP_CACHE = NoMap
    /\ syncdbs = 0
    /\ repo_map = NoRepoMap
    /\ init_error = NoError
    /\ config_file = "old"
    /\ config_locks = {}
    /\ config_pc = [p \in {Saver} \cup Loaders |-> "start"]
    /\ content = [p \in Loaders |-> "none"]
    /\ ignored_packages = <<>>
    /\ last_call = NoCall
    /\ in_cb = "none"
    /\ token = FALSE
    /\ sup = "none"
    /\ child = "none"
    /\ status = FALSE
    /\ pipes = [s \in Pipes |-> 0]
    /\ lines_out = [s \in Pipes |-> 0]
    /\ readers = [s \in Pipes |-> "none"]
    /\ kills = 0
    /\ signalled_in = "none"

\* an AppConfig with an empty ignore list
InitIgnored ==
    /\ op = "ignored"
    /\ pc = "start"
    /\ ret = "none"
    /\ cancelled = FALSE
    /\ elapsed = 0
    /\ timeout_secs = 1
    /\ handle = FALSE
    /\ cbs = {}
    /\ trans = "none"
    /\ guard = FALSE
    /\ initResult = "none"
    /\ releaseCalls = 0
    /\ commitCalls = 0
    /\ inCall = "none"
    /\ cbFired = 0
    /\ stream = <<>>
    /\ ignoreLeft = 0
    /\ orphansLeft = 0
    /\ orphanCount = 0
    /\ was_cancelled_before = FALSE
    /\ was_timed_out_before = FALSE
    /\ commit_err = NoError
    /\ interrupted_message = "Operation interrupted"
    /\ prepareCheck = "none"
    /\ commitReads = {}
    /\ flagsAtCommit = [cancelled |-> FALSE, timed_out |-> FALSE]
    /\ config = [enabled |-> FALSE, mode |-> "upgrade", max_packages |-> 0]
    /\ packages_checked = 0
    /\ packages_to_upgrade = 0
    /\ qflags = {}
    /\ detected = {}
    /\ runLog = <<>>
    /\ asked = <<>>
    /\ plan = NoPlan
    /\ ignore_pkgs = 0
    /\ state = PreflightState_default
    /\ response = <<>>
    /\ run = 1
    /\ script = <<>>
    /\ results = <<>>
    /\ staged = 0
    /\ localdb = <<>>
    /\ orphans = NoQuery
    /\ orphan_names = NoQuery
    /\ REPO_MAP_CACHE = NoMap
    /\ syncdbs = 0
    /\ repo_map = NoRepoMap
    /\ init_error = NoError
    /\ config_file = "old"
    /\ config_locks = {}
    /\ config_pc = <<>>
    /\ content = <<>>
    /\ ignored_packages = <<>>
    /\ last_call = NoCall
    /\ in_cb = "none"
    /\ token = FALSE
    /\ sup = "none"
    /\ child = "none"
    /\ status = FALSE
    /\ pipes = [s \in Pipes |-> 0]
    /\ lines_out = [s \in Pipes |-> 0]
    /\ readers = [s \in Pipes |-> "none"]
    /\ kills = 0
    /\ signalled_in = "none"

\* refresh_keyring or init_keyring is about to run
InitKeyring ==
    /\ op \in KeyringDrivers
    /\ pc = "start"
    /\ ret = "none"
    /\ cancelled = FALSE
    /\ elapsed = 0
    /\ timeout_secs = 1
    /\ handle = FALSE
    /\ cbs = {}
    /\ trans = "none"
    /\ guard = FALSE
    /\ initResult = "none"
    /\ releaseCalls = 0
    /\ commitCalls = 0
    /\ inCall = "none"
    /\ cbFired = 0
    /\ stream = <<>>
    /\ ignoreLeft = 0
    /\ orphansLeft = 0
    /\ orphanCount = 0
    /\ was_cancelled_before = FALSE
    /\ was_timed_out_before = FALSE
    /\ commit_err = NoError
    /\ interrupted_message = "Operation interrupted"
    /\ prepareCheck = "none"
    /\ commitReads = {}
    /\ flagsAtCommit = [cancelled |-> FALSE, timed_out |-> FALSE]
    /\ config = [enabled |-> FALSE, mode |-> "upgrade", max_packages |-> 0]
    /\ packages_checked = 0
    /\ packages_to_upgrade = 0
    /\ qflags = {}
    /\ detected = {}
    /\ runLog = <<>>
    /\ asked = <<>>
    /\ plan = NoPlan
    /\ ignore_pkgs = 0
    /\ state = PreflightState_default
    /\ response = <<>>
    /\ run = 1
    /\ script = <<>>
    /\ results = <<>>
    /\ staged = 0
    /\ localdb = <<>>
    /\ orphans = NoQuery
    /\ orphan_names = NoQuery
    /\ REPO_MAP_CACHE = NoMap
    /\ syncdbs = 0
    /\ repo_map = NoRepoMap
    /\ init_error = NoError
    /\ config_file = "old"
    /\ config_locks = {}
    /\ config_pc = <<>>
    /\ content = <<>>
    /\ ignored_packages = <<>>
    /\ last_call = NoCall
    /\ in_cb = "none"
    /\ token = FALSE
    /\ sup = "none"
    /\ child = "none"
    /\ status = FALSE
    /\ pipes = [s \in Pipes |-> 0]
    /\ lines_out = [s \in Pipes |-> 0]
    /\ readers = [s \in Pipes |-> "none"]
    /\ kills = 0
    /\ signalled_in = "none"

\* downgrade_package is about to run with the timeout it was given
InitDowngrade ==
    /\ op = "downgrade"
    /\ pc = "start"
    /\ ret = "none"
    /\ cancelled = FALSE
    /\ elapsed = 0
    /\ timeout_secs \in 0..MaxTimeout
    /\ handle = FALSE
    /\ cbs = {}
    /\ trans = "none"
    /\ guard = FALSE
    /\ initResult = "none"
    /\ releaseCalls = 0
    /\ commitCalls = 0
    /\ inCall = "none"
    /\ cbFired = 0
    /\ stream = <<>>
    /\ ignoreLeft = 0
    /\ orphansLeft = 0
    /\ orphanCount = 0
    /\ was_cancelled_before = FALSE
    /\ was_timed_out_before = FALSE
    /\ commit_err = NoError
    /\ interrupted_message = "Operation interrupted"
    /\ prepareCheck = "none"
    /\ commitReads = {}
    /\ flagsAtCommit = [cancelled |-> FALSE, timed_out |-> FALSE]
    /\ config = [enabled |-> FALSE, mode |-> "upgrade", max_packages |-> 0]
    /\ packages_checked = 0
    /\ packages_to_upgrade = 0
    /\ qflags = {}
    /\ detected = {}
    /\ runLog = <<>>
    /\ asked = <<>>
    /\ plan = NoPlan
    /\ ignore_pkgs = 0
    /\ state = PreflightState_default
    /\ response = <<>>
    /\ run = 1
    /\ script = <<>>
    /\ results = <<>>
    /\ staged = 0
    /\ localdb = <<>>
    /\ orphans = NoQuery
    /\ orphan_names = NoQuery
    /\ REPO_MAP_CACHE = NoMap
    /\ syncdbs = 0
    /\ repo_map = NoRepoMap
    /\ init_error = NoError
    /\ config_file = "old"
    /\ config_locks = {}
    /\ config_pc = <<>>
    /\ content = <<>>
    /\ ignored_packages = <<>>
    /\ last_call = NoCall
    /\ in_cb = "none"
    /\ token = FALSE
    /\ sup = "none"
    /\ child = "none"
    /\ status = FALSE
    /\ pipes = [s \in Pipes |-> 0]
    /\ lines_out = [s \in Pipes |-> 0]
    /\ readers = [s \in Pipes |-> "none"]
    /\ kills = 0
    /\ signalled_in = "none"

Init ==
    \/ InitDriver
    \/ InitClassify
    \/ InitScheduled

Next ==
    \/ Signal
    \/ Tick
    \/ CbLog
    \/ CbDownload
    \/ CbProgress
    \/ CbProgressEmit
    \/ CbEvent
    \/ CbQuestion
    \/ TransactionGuard_drop
    \/ ReleaseReturn
    \/ Finish
    \/ run_upgrade
    \/ remove_orphans
    \/ sync_database
    \/ HandleCommitError
    \/ scheduled_run

Spec ==
    Init /\ [][Next]_vars

\* two invocations of preflight_upgrade, one after the other, against a
\* database nothing else touches
NextPreflight ==
    \/ preflight_upgrade
    \/ TransactionGuard_drop
    \/ ReleaseReturn
    \/ Finish

SpecPreflight ==
    InitPreflight /\ [][NextPreflight]_vars

NextOrphans ==
    \/ list_orphans
    \/ RemoveOrphansNames

SpecOrphans ==
    InitOrphans /\ [][NextOrphans]_vars

NextCache ==
    \/ get_repo_map
    \/ CacheSyncDatabase
    \/ CacheScheduledRun

SpecCache ==
    InitCache /\ [][NextCache]_vars

NextConfig ==
    \/ AppConfig_save
    \/ AppConfig_load

SpecConfig ==
    InitConfig /\ [][NextConfig]_vars

NextIgnored ==
    \/ AddIgnored
    \/ RemoveIgnored
    \/ IsIgnored

SpecIgnored ==
    InitIgnored /\ [][NextIgnored]_vars

\* the signal may arrive and the runtime polls the supervisor while a
\* keyring driver runs; the main task and the supervisor are scheduled
\* fairly and every library operation ends
NextKeyring ==
    \/ KeyringSignal
    \/ SupervisorPoll
    \/ keyring
    \/ Finish

SpecKeyring ==
    /\ InitKeyring
    /\ [][NextKeyring]_vars
    /\ WF_vars(SupervisorPoll)
    /\ WF_vars(keyring \/ Finish)

\* the main thread and the two draining threads are scheduled fairly
NextDowngrade ==
    \/ Signal
    \/ Tick
    \/ child_process
    \/ draining_threads
    \/ downgrade_package
    \/ Finish

SpecDowngrade ==
    /\ InitDowngrade
    /\ [][NextDowngrade]_vars
    /\ WF_vars(downgrade_package \/ Finish)
    /\ WF_vars(draining_threads)

\* ------------------------------------------------------------------------
\* Properties
\* ------------------------------------------------------------------------
CompleteIndexes(s) ==
    {i \in 1..Len(s) : s[i].type = "complete"}

StreamDrivers ==
    {"upgrade", "remove_orphans", "sync_database"}

GuardDrivers ==
    {"upgrade", "scheduled_run"}

\* C1: every invocation of run_upgrade has written a Complete record by the
\* time it has returned, whichever call failed.
C1_UpgradeAlwaysCompletes ==
    (op = "upgrade" /\ pc = "done") => CompleteIndexes(stream) /= {}

\* C2: in upgrade, remove_orphans and sync_database at most one Complete
\* record is written and no record follows it.
C2_CompleteOnceAndLast ==
    op \in StreamDrivers =>
        /\ Cardinality(CompleteIndexes(stream)) <= 1
        /\ \A i \in CompleteIndexes(stream) : i = Len(stream)

\* C3 as stated: whenever TransactionGuard::new was attempted, trans_release
\* has been invoked exactly once when the driver has returned.
C3_ReleaseOncePerAttempt ==
    (op \in GuardDrivers /\ pc = "done" /\ initResult /= "none")
        => releaseCalls = 1

\* C3 as amended: a guard whose init succeeded releases exactly once, at the
\* end of its scope and whatever stage, prepare and commit returned; when
\* init failed no guard exists and trans_release is not invoked.
C3_ReleaseOncePerGuard ==
    op \in GuardDrivers =>
        /\ releaseCalls <= 1
        /\ guard => (initResult = "ok" /\ releaseCalls = 0)
        /\ pc = "done" =>
              releaseCalls = (IF initResult = "ok" THEN 1 ELSE 0)

C3_Witness ==
    /\ op = "upgrade"
    /\ pc = "done"
    /\ initResult = "ok"
    /\ commit_err /= NoError
    /\ ret = "Err"
    /\ releaseCalls = 1

\* C4: once trans_init has succeeded in remove_orphans, trans_release has
\* been called exactly once when the function has returned.
C4_RemoveOrphansReleasesOnce ==
    (op = "remove_orphans" /\ pc = "done" /\ initResult = "ok")
        => releaseCalls = 1

\* C5: in run_upgrade, if the flag is set or the deadline has expired when
\* prepare returns, commit is never invoked.
C5_NoCommitWhenStoppedAfterPrepare ==
    (op = "upgrade" /\ prepareCheck \in {"Cancelled", "TimedOut"})
        => commitCalls = 0

ClaimedOutcome(cancelled_before, cancelled_after, timed_out_before, timed_out_after, err_msg) ==
    LET cancelled_during == ~cancelled_before /\ cancelled_after
        timed_out_during == ~timed_out_before /\ timed_out_after
        keyword == \E kw \in {KW_INTERRUPT, KW_CANCEL, KW_SIGNAL, KW_TIMEOUT} :
                      contains(to_lowercase(err_msg), kw)
    IN  IF cancelled_during \/ keyword THEN "Interrupted"
        ELSE IF timed_out_during THEN "TimedOut"
        ELSE "Failed"

InconsistentStateMessages ==
    {"Operation interrupted - system may be in inconsistent state",
     "Operation timed out after {} seconds - system may be in inconsistent state"}

\* the outcome a terminal record reports
OutcomeOf(rec) ==
    LET interrupted == IF op = "upgrade"
                       THEN "Operation interrupted - system may be in inconsistent state"
                       ELSE interrupted_message
        timed_out == IF op = "upgrade"
                     THEN "Operation timed out after {} seconds - system may be in inconsistent state"
                     ELSE "Operation timed out after {} seconds"
    IN  IF rec.type /= "complete" \/ rec.success THEN "none"
        ELSE IF rec.message = interrupted THEN "Interrupted"
        ELSE IF rec.message = timed_out /\ rec.arg = <<timeout_secs>>
        THEN "TimedOut"
        ELSE IF rec.message = "Failed to commit transaction: {}" THEN "Failed"
        ELSE "none"

\* the step in which a failed commit is classified: a call of
\* handle_commit_error, or the return of a failed commit in run_upgrade
ClassifyStep ==
    \/ op = "handle_commit_error" /\ pc = "start" /\ pc' = "done"
    \/ /\ op = "upgrade"
       /\ inCall = "trans_commit"
       /\ inCall' = "none"
       /\ commit_err' /= NoError

\* C7: the classification is Interrupted if the flag was set during the
\* commit or the error text holds a keyword, also when the deadline expired
\* during the commit; otherwise TimedOut if the deadline expired during the
\* commit; otherwise Failed with the original error text.
C7_ClassifierPriority ==
    [][ClassifyStep =>
          LET rec == stream'[Len(stream')]
          IN  /\ Len(stream') = Len(stream) + 1
              /\ OutcomeOf(rec) = ClaimedOutcome(was_cancelled_before,
                                      cancelled, was_timed_out_before,
                                      is_timed_out, commit_err')
              /\ OutcomeOf(rec) = "Failed" => rec.arg = commit_err']_vars

C7_Witness ==
    /\ op = "handle_commit_error"
    /\ pc = "done"
    /\ ~was_cancelled_before /\ cancelled
    /\ ~was_timed_out_before /\ is_timed_out
    /\ ~error_indicates_interrupt(commit_err)
    /\ OutcomeOf(stream[1]) = "Interrupted"

\* C8 as stated: with the flag set before and after the commit the outcome
\* is never Interrupted, whatever the error text.
C8_CancelledBeforeNeverInterrupted ==
    (op = "handle_commit_error" /\ pc = "done"
        /\ was_cancelled_before /\ cancelled)
        => OutcomeOf(stream[1]) =
              (IF ~was_timed_out_before /\ is_timed_out
               THEN "TimedOut" ELSE "Failed")

\* C8 as amended: with the flag set before and after the commit the outcome
\* is Interrupted exactly when the error text holds a keyword; without a
\* keyword it is TimedOut if the deadline expired during the commit and
\* Failed otherwise.
C8_CancelledBeforeFallsToKeyword ==
    [][(ClassifyStep /\ was_cancelled_before /\ cancelled) =>
          OutcomeOf(stream'[Len(stream')]) =
              (IF error_indicates_interrupt(commit_err') THEN "Interrupted"
               ELSE IF ~was_timed_out_before /\ is_timed_out THEN "TimedOut"
               ELSE "Failed")]_vars

C8_Witness ==
    /\ op = "handle_commit_error"
    /\ pc = "done"
    /\ was_cancelled_before /\ cancelled
    /\ ~was_timed_out_before /\ is_timed_out
    /\ commit_err = ERR_DISK_FULL
    /\ OutcomeOf(stream[1]) = "TimedOut"

\* C9: in scheduled_run a commit that fails while the flag flips from unset
\* to set, or the deadline expires, during the call is not logged as a plain
\* "Failed to commit upgrade".
C9_ScheduledCommitClassified ==
    [][(/\ op = "scheduled_run"
        /\ inCall = "trans_commit"
        /\ inCall' = "none"
        /\ commit_err' /= NoError
        /\ \/ ~flagsAtCommit.cancelled /\ cancelled
           \/ ~flagsAtCommit.timed_out /\ is_timed_out
        /\ Len(runLog') = Len(runLog) + 1)
       => runLog'[Len(runLog')].error /= "Failed to commit upgrade: {}"]_vars

\* C10: when commit fails in run_upgrade and the flag flipped from unset to
\* set around the call, the failure is reported by exactly one Complete
\* record, with success = false and a message that mentions a possibly
\* inconsistent state, and the driver returns Err.
C10_InterruptedUpgradeReported ==
    [][/\ (/\ op = "upgrade"
           /\ inCall = "trans_commit"
           /\ inCall' = "none"
           /\ commit_err' /= NoError
           /\ ~was_cancelled_before /\ cancelled)
          => /\ CompleteIndexes(stream) = {}
             /\ Len(stream') = Len(stream) + 1
             /\ stream'[Len(stream')].type = "complete"
             /\ stream'[Len(stream')].success = FALSE
             /\ stream'[Len(stream')].message \in InconsistentStateMessages
             /\ ret' = "Err"
       /\ (op = "upgrade" /\ pc \in {"unwind", "done"})
          => /\ CompleteIndexes(stream') = CompleteIndexes(stream)
             /\ ret' = ret]_vars

C10_Witness ==
    /\ op = "upgrade"
    /\ pc = "done"
    /\ commit_err = ERR_INTERRUPTED_BY_SIGNAL
    /\ ~was_cancelled_before /\ cancelled
    /\ ret = "Err"
    /\ Cardinality(CompleteIndexes(stream)) = 1
    /\ stream[Len(stream)].message \in InconsistentStateMessages

\* C11 as stated: in run_upgrade and in remove_orphans a failed commit that
\* is classified as Interrupted is reported by a Complete record whose
\* message warns of a possibly inconsistent state and is not the message of
\* an ordinary failed transaction.
C11_InterruptedCommitWarns ==
    [][(/\ op \in {"upgrade", "remove_orphans"}
        /\ inCall = "trans_commit"
        /\ inCall' = "none"
        /\ commit_err' /= NoError
        /\ ClaimedOutcome(was_cancelled_before, cancelled,
                          was_timed_out_before, is_timed_out,
                          commit_err') = "Interrupted")
       => /\ Len(stream') = Len(stream) + 1
          /\ stream'[Len(stream')].type = "complete"
          /\ stream'[Len(stream')].message \in InconsistentStateMessages
          /\ stream'[Len(stream')].message
                /= "Failed to commit transaction: {}"]_vars

\* C12: when prepare has succeeded in run_upgrade and the add set and the
\* remove set are both empty, commit is not called, the one Complete record
\* is success = true with "System is up to date", and the driver returns Ok.
C12_EmptyUpgradeIsUpToDate ==
    (/\ op = "upgrade"
     /\ plan.prepared = "ok"
     /\ plan.add_is_empty
     /\ plan.remove_is_empty)
        => /\ commitCalls = 0
           /\ inCall /= "trans_commit"
           /\ pc \in {"unwind", "done"}
           /\ ret = "Ok"
           /\ Cardinality(CompleteIndexes(stream)) = 1
           /\ \A i \in CompleteIndexes(stream) :
                 stream[i] = Complete(TRUE, "System is up to date", <<>>)

C12_Witness ==
    /\ op = "upgrade"
    /\ pc = "done"
    /\ plan.prepared = "ok"
    /\ plan.add_is_empty
    /\ plan.remove_is_empty
    /\ asked /= <<>>
    /\ ret = "Ok"
    /\ commitCalls = 0

\* C13: preflight_upgrade never calls commit, whatever init, staging and
\* prepare return and whatever questions are raised, and an invocation whose
\* trans_init succeeded has released the transaction exactly once when it
\* has returned.
C13_PreflightNeverCommits ==
    op = "preflight" =>
        /\ commitCalls = 0
        /\ inCall /= "trans_commit"
        /\ releaseCalls <= 1
        /\ (pc = "done" /\ initResult = "ok")
              => (releaseCalls = 1 /\ trans = "none")

C13_Witness ==
    /\ op = "preflight"
    /\ pc = "done"
    /\ initResult = "ok"
    /\ plan.prepared = "err"
    /\ asked /= <<>>
    /\ releaseCalls = 1
    /\ commitCalls = 0

\* C14 as stated: when preflight_upgrade ends before prepare was reached
\* (the handle could not be opened, an ignore entry was refused, trans_init
\* or staging failed), it has printed one PreflightResponse with
\* success = false and an error message, and it returns normally.
C14_PreflightErrorsAreStructured ==
    (op = "preflight" /\ pc \in {"unwind", "done"} /\ plan.prepared = "none")
        => /\ ret = "Ok"
           /\ Len(response) = 1
           /\ ~response[1].success
           /\ response[1].error /= "None"

\* the entries of the five lists of PreflightState, each reduced to the
\* number of the question it came from
EntryQuestions(s) ==
    s.conflicts \o s.replacements
    \o [k \in 1..Len(s.removals) |-> s.removals[k][1]]
    \o [k \in 1..Len(s.providers) |-> s.providers[k].dependency]
    \o s.import_keys

RECURSIVE RaisedOfKind(_, _)
RaisedOfKind(kind, k) ==
    IF k = 0 THEN <<>>
    ELSE RaisedOfKind(kind, k - 1)
         \o (IF asked[k].q = kind THEN <<k>> ELSE <<>>)

\* the packages of the RemovePkgs questions among the first k, in raised
\* order
RECURSIVE RaisedRemovals(_)
RaisedRemovals(k) ==
    IF k = 0 THEN <<>>
    ELSE RaisedRemovals(k - 1)
         \o (IF asked[k].q = "RemovePkgs"
             THEN [j \in 1..asked[k].n |-> <<k, j>>]
             ELSE <<>>)

ClaimedAnswer(q) ==
    IF q \in {"Conflict", "RemovePkgs", "Replace", "ImportKey"} THEN "true"
    ELSE IF q \in {"Corrupted", "InstallIgnorepkg"} THEN "false"
    ELSE "index 0"

\* C16: the recording responder of preflight_upgrade answers true to
\* Conflict, RemovePkgs, Replace and ImportKey, false to Corrupted and
\* InstallIgnorepkg, and selects candidate 0 for SelectProvider after
\* recording the candidates, whatever was asked before.
C16_RecordModeAnswers ==
    op = "preflight" =>
        \A i \in 1..Len(asked) :
           /\ asked[i].answer = ClaimedAnswer(asked[i].q)
           /\ (asked[i].q = "SelectProvider" /\ "question" \in cbs)
                 => \E k \in 1..Len(state.providers) :
                       /\ state.providers[k].dependency = i
                       /\ Len(state.providers[k].providers) = asked[i].n

C16_Witness ==
    /\ op = "preflight"
    /\ Len(asked) = 2
    /\ asked[1].q = "Corrupted"
    /\ asked[1].answer = "false"
    /\ asked[2].q = "SelectProvider"
    /\ asked[2].n = 2
    /\ asked[2].answer = "index 0"

\* C17: the responder of run_upgrade gives every question, wherever it
\* comes in the sequence, the answer the responder of preflight_upgrade
\* gives to a question of that kind.
C17_RespondersAnswerAlike ==
    op = "upgrade" =>
        \A i \in 1..Len(asked) :
           asked[i].answer = PreflightAnswer(asked[i].q)

C17_Witness ==
    /\ op = "upgrade"
    /\ Len(asked) = 2
    /\ asked[1].q = "InstallIgnorepkg"
    /\ asked[2].q = "SelectProvider"
    /\ inCall = "trans_prepare"

\* C18 as stated: the responder of run_upgrade writes exactly one Log record
\* for every question before it answers it, whatever the kind.
C18_OneLogPerAnswer ==
    op = "upgrade" =>
        \A i \in 1..Len(asked) : asked[i].logged = 1

\* C19: a second invocation of preflight_upgrade with the same ignore list,
\* against the database as the first one left it and an engine that behaves
\* as before, prints the same response and returns the same value; the
\* first invocation leaves no transaction behind and the second starts from
\* an empty accumulator.
C19_PreflightIdempotent ==
    op = "preflight" =>
        /\ Len(results) = 2 => results[1] = results[2]
        /\ pc = "done" => (trans = "none" /\ ~guard)
        /\ (run = 2 /\ pc = "pf_trans_init")
              => state = PreflightState_default

C19_Witness ==
    /\ op = "preflight"
    /\ Len(results) = 2
    /\ results[2].ret = "Ok"
    /\ results[2].out[1].success
    /\ results[2].out[1].conflicts /= <<>>
    /\ results[2].out[1].packages_to_upgrade = 1
    /\ results[2].out[1].total_download_size = 1

\* the reason the log entry of scheduled_run gives for a question flag
ClaimedReason(flag) ==
    CASE flag = "conflicts" -> "conflicts detected"
      [] flag = "removals" -> "package removals required"
      [] flag = "import_keys" -> "key imports required"

\* C20 as stated: when a Conflict, RemovePkgs, Replace or ImportKey question
\* was raised while prepare ran, scheduled_run stops when prepare returns,
\* without going on to commit, and the entry it logs names the reason of
\* every such question.
C20_ScheduledAbortsOnQuestion ==
    [][(/\ op = "scheduled_run"
        /\ inCall = "trans_prepare"
        /\ inCall' = "none"
        /\ qflags \ detected /= {})
       => /\ pc' = "unwind"
          /\ runLog' /= runLog
                => \A flag \in qflags \ detected :
                      \E k \in 1..Len(runLog'[Len(runLog')].reasons) :
                         runLog'[Len(runLog')].reasons[k]
                            = ClaimedReason(flag)]_vars
\* C21: scheduled_run calls commit() only with enabled = true, mode = upgrade
\* and a number of available updates within max_packages (0 meaning no cap);
\* with enabled = false it opens no handle, makes no engine call and writes
\* no log entry; in check mode it never initialises a transaction.
C21_CommitGatedByConfig ==
    op = "scheduled_run" =>
        /\ commitCalls > 0 =>
              /\ config.enabled
              /\ config.mode = "upgrade"
              /\ \/ config.max_packages = 0
                 \/ packages_checked <= config.max_packages
        /\ ~config.enabled =>
              /\ ~handle
              /\ inCall = "none"
              /\ cbFired = 0
              /\ initResult = "none"
              /\ runLog = <<>>
        /\ config.mode = "check" =>
              /\ initResult = "none"
              /\ trans = "none"
              /\ ~guard

C21_Witness ==
    /\ op = "scheduled_run"
    /\ commitCalls = 1
    /\ config.max_packages = 1
    /\ packages_checked = 1
    /\ pc = "done"

\* the orphan condition as the specification words it
ClaimedOrphan(pkg) ==
    /\ pkg.reason = "Depend"
    /\ Len(pkg.required_by) = 0
    /\ Len(pkg.optional_for) = 0

\* the names a sequence holds
NamesOf(names) ==
    {names[i] : i \in 1..Len(names)}

\* C22: a package is in the orphan set iff its reason is dependency and its
\* required-by and optional-for lists are empty; a package somebody requires
\* is never an orphan; list_orphans and remove_orphans select the same
\* packages from the same database.
C22_OrphanSet ==
    op = "orphans" =>
        /\ orphans.ret = "Ok" =>
              \A i \in PackageNames :
                 /\ i \in NamesOf(orphans.names) <=> ClaimedOrphan(localdb[i])
                 /\ localdb[i].required_by /= <<>>
                       => i \notin NamesOf(orphans.names)
        /\ orphan_names.ret = "Ok" =>
              \A i \in PackageNames :
                 /\ i \in NamesOf(orphan_names.names)
                       <=> ClaimedOrphan(localdb[i])
                 /\ localdb[i].required_by /= <<>>
                       => i \notin NamesOf(orphan_names.names)
        /\ (orphans.ret = "Ok" /\ orphan_names.ret = "Ok")
              => orphans.names = orphan_names.names

C22_Witness ==
    /\ op = "orphans"
    /\ orphans.ret = "Ok"
    /\ orphan_names.ret = "Ok"
    /\ orphans.names = <<2>>
    /\ localdb[1].reason = "Depend"
    /\ localdb[1].required_by = <<>>
    /\ localdb[1].optional_for = <<2>>

\* C23 as stated: remove_orphans reads the orphan set before a transaction
\* exists, initialises no transaction for an empty set, and has staged every
\* orphan by the time prepare is called.
C23_StagesExactlyTheOrphans ==
    op = "remove_orphans" =>
        /\ pc = "ro_orphan_names" => (initResult = "none" /\ trans = "none")
        /\ orphanCount = 0 => initResult = "none"
        /\ inCall = "trans_prepare" => staged = orphanCount

\* the top-level operations that call setup_signal_handler
SignalDrivers ==
    Drivers \cup {"scheduled_run"}

\* what a step of a driver may do to the flag
FlagStep ==
    op \in SignalDrivers =>
        /\ (cancelled /\ ~cancelled') => pc = "start"
        /\ (pc = "start" /\ pc' \notin {"start", "unwind"}) => ~cancelled'
        /\ (~cancelled /\ cancelled')
              => (pc \notin {"start", "done"} /\ pc' = pc /\ stream' = stream
                  /\ inCall' = inCall)

\* C24: within one driver invocation the flag is false once the driver has
\* called setup_signal_handler, whatever the previous operation left in it;
\* from then on it only goes from false to true, and only by the interrupt
\* handler.
C24_CancellationMonotonic ==
    [][FlagStep]_vars

C24_Witness ==
    /\ op = "scheduled_run"
    /\ inCall = "trans_commit"
    /\ cancelled
    /\ cbFired = 0

\* C25 as stated: when the first check of run_upgrade finds the flag set or
\* the deadline expired, no handle has been opened, no ignore entry
\* registered and no callback installed.
C25_FirstCheckBeforeEngineWork ==
    (op = "upgrade" /\ pc = "up_check1" /\ check_cancel /= "Continue") =>
        /\ ~handle
        /\ cbs = {}

\* C26 as stated: a map get_repo_map returns was built from the sync
\* databases as they are when it is called, whichever of sync_database and
\* scheduled_run synced them last.
C26_NoStaleRepoMap ==
    (op = "cache" /\ repo_map.returned) => repo_map.map = repo_map.syncs

\* C27: handle_commit_error returns Ok(false) exactly when the failure is
\* classified as interrupted or timed out, returns Err with the original
\* error text exactly when it is classified as a genuine failure, and has
\* written one Complete record with success = false in each case.
C27_ClassifierReturn ==
    (op = "handle_commit_error" /\ pc = "done") =>
        LET class == ClaimedOutcome(was_cancelled_before, cancelled,
                         was_timed_out_before, is_timed_out, commit_err)
            r == results[1]
        IN  /\ Len(stream) = 1
            /\ stream[1].type = "complete"
            /\ ~stream[1].success
            /\ r.ret = "Ok(false)" <=> class \in {"Interrupted", "TimedOut"}
            /\ r.ret = "Err" <=> class = "Failed"
            /\ r.ret = "Err" => r.error.arg = commit_err
            /\ r.ret = "Ok(false)" => r.error = NoAnyhow
            /\ ret = r.ret

C27_Witness ==
    /\ op = "handle_commit_error"
    /\ pc = "done"
    /\ results[1].ret = "Err"
    /\ results[1].error.arg = ERR_DISK_FULL
    /\ was_cancelled_before
    /\ cancelled

\* C28 as stated: the error TransactionGuard::new returns when the database
\* is locked or the engine is mid-transaction converts to database_locked,
\* through BackendError::from and through format_error_json.
C28_InitFailureIsDatabaseLocked ==
    (op = "upgrade" /\ init_error /= NoError) =>
        /\ BackendError_from(init_error) = "database_locked"
        /\ format_error_json(init_error) = "database_locked"

\* C29 as stated: the file changes only in steps of a process that holds
\* the exclusive lock, and what a load reads under its shared lock is the
\* complete previous configuration or the complete new one.
C29_LoadSeesCompleteConfig ==
    op = "config" =>
        /\ \A p \in Loaders : content[p] \in {"none", "old", "new"}
        /\ config_file \in {"empty", "partial"}
              => <<Saver, "exclusive">> \in config_locks

\* C30: after any sequence of add_ignored and remove_ignored calls on an
\* empty AppConfig the list is ascending without duplicates; add_ignored
\* returns true iff the package was absent, remove_ignored returns true iff
\* it was present, either leaves the list alone when it returns false, and
\* is_ignored tells whether the package is in the list.
C30_IgnoredListSortedUnique ==
    op = "ignored" =>
        LET list == ignored_packages
            was_in == \E i \in 1..Len(last_call.before) :
                         last_call.before[i] = last_call.package
            is_in == \E i \in 1..Len(list) : list[i] = last_call.package
        IN  /\ \A i, j \in 1..Len(list) : i < j => list[i] < list[j]
            /\ last_call.fn = "add_ignored" =>
                  /\ last_call.ret <=> ~was_in
                  /\ ~last_call.ret => list = last_call.before
            /\ last_call.fn = "remove_ignored" =>
                  /\ last_call.ret <=> was_in
                  /\ ~last_call.ret => list = last_call.before
            /\ last_call.fn = "is_ignored" => (last_call.ret <=> is_in)

C30_Witness ==
    /\ op = "ignored"
    /\ last_call.fn = "add_ignored"
    /\ last_call.package = 1
    /\ last_call.ret
    /\ last_call.before = <<2, 3>>
    /\ ignored_packages = <<1, 2, 3>>

\* ------------------------------------------------------------------------
\* C34 as stated: whenever prepare succeeded in preflight_upgrade, the
\* response carries every entry the PreflightState accumulated (conflicts,
\* replacements, removals, provider choices, key imports) together with the
\* size of the add set and its total download size as they were read before
\* the transaction was released, also when the add set is empty.
C34_PreparedResponseCarriesState ==
    (op = "preflight" /\ plan.prepared = "ok") =>
        /\ Len(response) = 1
        /\ response[1].success
        /\ response[1].conflicts = state.conflicts
        /\ response[1].replacements = state.replacements
        /\ response[1].removals = state.removals
        /\ response[1].providers = state.providers
        /\ response[1].import_keys = state.import_keys
        /\ response[1].packages_to_upgrade = plan.packages
        /\ response[1].total_download_size = plan.download

\* ------------------------------------------------------------------------
\* C35 as stated: within one invocation of upgrade, remove_orphans or
\* scheduled_run the transaction calls come in the order init, stage,
\* prepare, commit, release: a stage, prepare or commit call is made only
\* on a transaction that init opened and release has not closed, and commit
\* is invoked only after init, every staging call and prepare succeeded.
C35_TransactionCallOrder ==
    op \in {"upgrade", "remove_orphans", "scheduled_run"} =>
        /\ (\/ inCall \in {"sync_sysupgrade", "trans_prepare", "trans_commit"}
            \/ pc = "ro_stage")
              => (initResult = "ok" /\ trans = "active" /\ releaseCalls = 0)
        /\ commitCalls > 0 =>
              /\ initResult = "ok"
              /\ op = "remove_orphans" => staged = orphanCount

\* ------------------------------------------------------------------------
\* the positions of check_cancel_early!(&timeout) in run_upgrade,
\* remove_orphans and sync_database
CheckPositions ==
    {"up_check1", "up_check2", "up_check3", "ro_check1", "ro_check2",
     "sy_check1"}

\* the record the claim expects of a check that stops the driver
ClaimedEarlyComplete ==
    IF cancelled
    THEN Complete(FALSE, "Operation cancelled by user", <<>>)
    ELSE Complete(FALSE, "Operation timed out after {} seconds",
             <<timeout_secs>>)

\* the driver has returned Ok behind a cancellation record
StoppedEarly ==
    /\ op \in StreamDrivers
    /\ pc \in {"unwind", "done"}
    /\ ret = "Ok"
    /\ \E i \in CompleteIndexes(stream) :
          stream[i] \in
             {Complete(FALSE, "Operation cancelled by user", <<>>),
              Complete(FALSE, "Operation timed out after {} seconds",
                  <<timeout_secs>>)}

EarlyStep ==
    /\ (/\ op \in StreamDrivers
        /\ pc \in CheckPositions
        /\ pc' /= pc
        /\ cancelled \/ elapsed >= timeout_secs)
          => /\ stream' = Append(stream, ClaimedEarlyComplete)
             /\ Cardinality(CompleteIndexes(stream')) = 1
             /\ pc' = "unwind"
             /\ ret' = "Ok"
    /\ StoppedEarly
          => /\ Cardinality(CompleteIndexes(stream')) = 1
             /\ ret' = ret
             /\ commitCalls' = commitCalls
             /\ inCall' \in {"none", "trans_release"}
             /\ pc' \in {"unwind", "done"}

\* C36: when a check_cancel_early of upgrade, remove_orphans or
\* sync_database finds the flag set or the deadline expired, the driver
\* writes exactly one Complete record with success = false (the
\* cancellation one when both hold), makes no further stage, prepare or
\* commit call, and returns Ok.
C36_EarlyCheckStopsWithOk ==
    [][EarlyStep]_vars

C36_Witness ==
    /\ op = "upgrade"
    /\ pc = "done"
    /\ ret = "Ok"
    /\ initResult = "ok"
    /\ cancelled
    /\ elapsed >= timeout_secs
    /\ commitCalls = 0
    /\ stream = <<Complete(FALSE, "Operation cancelled by user", <<>>)>>

\* ------------------------------------------------------------------------
\* C37 as stated: in upgrade and remove_orphans, once the terminal Complete
\* record has been written after a successful trans_init, the transaction
\* of this invocation has been released and the engine no longer holds it.
C37_CompleteAfterRelease ==
    (/\ op \in {"upgrade", "remove_orphans"}
     /\ initResult = "ok"
     /\ CompleteIndexes(stream) /= {})
        => (releaseCalls >= 1 /\ trans = "none")

\* ------------------------------------------------------------------------
\* a step of scheduled_run behind the enabled gate that returns
ScheduledReturnStep ==
    /\ (/\ op = "scheduled_run"
        /\ pc \notin {"start", "unwind", "done"}
        /\ pc' = "unwind")
          => /\ Len(runLog') = 1
             /\ ret' = "Err" => ~runLog'[1].success
    /\ (op = "scheduled_run" /\ pc \in {"unwind", "done"})
          => runLog' = runLog

\* C38 as stated: an invocation of scheduled_run that passed the enabled
\* gate has appended exactly one entry to the scheduled-run log when it
\* returns, on every exit path, and the entry has success = false whenever
\* the function returns an error.
C38_OneLogEntryPerRun ==
    [][ScheduledReturnStep]_vars

\* ------------------------------------------------------------------------
\* a record of the given types is appended to the stream by this step
Appends(types) ==
    /\ Len(stream') = Len(stream) + 1
    /\ SubSeq(stream', 1, Len(stream)) = stream
    /\ stream'[Len(stream')].type \in types

\* C39 as stated: in upgrade and remove_orphans no Progress record is
\* written once the flag is set, while the other records are still appended
\* in the order the engine raised them.
NoProgressOnceCancelled ==
    (op \in {"upgrade", "remove_orphans"} /\ stream' /= stream)
        => /\ Appends({"log", "download", "progress", "event", "complete"})
           /\ cancelled => ~Appends({"progress"})

C39_NoProgressOnceCancelled ==
    [][NoProgressOnceCancelled]_vars

\* C39 as amended: a progress callback the engine invokes once the flag is
\* set writes nothing, so that after the flag is set at most the one
\* callback that had already passed its test still writes its Progress
\* record; every record is appended behind the ones written before it.
NoProgressCallbackOnceCancelled ==
    op \in {"upgrade", "remove_orphans"} =>
        /\ stream' /= stream
              => Appends({"log", "download", "progress", "event", "complete"})
        /\ (cancelled /\ in_cb = "none") => in_cb' = "none"
        /\ Appends({"progress"}) => (in_cb = "progress" /\ in_cb' = "none")

C39_NoProgressCallbackOnceCancelled ==
    [][NoProgressCallbackOnceCancelled]_vars

\* the flag was set during commit and a Log record was written after it,
\* with no Progress record in the stream
C39_Witness ==
    /\ op = "upgrade"
    /\ inCall = "trans_commit"
    /\ cancelled
    /\ ~flagsAtCommit.cancelled
    /\ cbFired = 2
    /\ commitReads /= {}
    /\ stream = <<Record("log", FALSE, "", <<>>)>>

\* ------------------------------------------------------------------------
\* the Complete record that reports a cancellation forwarded by the token
CancelledByUser ==
    Complete(FALSE, "Operation cancelled by user", <<>>)

\* C31 as stated: in refresh_keyring and init_keyring, a keyring operation
\* during which the flag is set ends with the token cancelled by the
\* supervisor and with a Complete record that reports the cancellation; the
\* supervisor cancels the token only when the flag is set.
KeyringEndsCancelled ==
    op \in KeyringDrivers =>
        /\ (/\ inCall \in KeyringCalls
            /\ signalled_in \in KeyringCalls
            /\ inCall' = "none")
              => /\ token
                 /\ stream'[Len(stream')] = CancelledByUser
        /\ token' => cancelled'

KeyringForwardStep ==
    op \in KeyringDrivers =>
        /\ (~token /\ token') => (cancelled /\ inCall \in KeyringCalls)
        /\ (inCall \in KeyringCalls /\ inCall' = "none")
              => /\ Cardinality(CompleteIndexes(stream')) = 1
                 /\ stream'[Len(stream')].type = "complete"
                 /\ stream'[Len(stream')] = CancelledByUser => token

PollLoop ==
    {"dg_poll", "dg_try_wait", "dg_sleep"}

KillStep ==
    op = "downgrade" =>
        /\ kills' /= kills
              => /\ kills' = kills + 1
                 /\ pc = "dg_poll"
                 /\ cancelled \/ elapsed > timeout_secs
        /\ (pc = "dg_poll" /\ pc' /= pc
            /\ (cancelled \/ elapsed > timeout_secs))
              => /\ kills' = kills + 1
                 /\ child' /= "running"
                 /\ pc' = "unwind"
                 /\ ret' = "Ok"

C33_DowngradeCompleteLast ==
    (op = "downgrade" /\ child /= "none") =>
        /\ Cardinality(CompleteIndexes(stream)) <= 1
        /\ \A i \in CompleteIndexes(stream) : i = Len(stream)
        /\ pc = "done" => Cardinality(CompleteIndexes(stream)) = 1

====
